---- MODULE Spec2Model ----
(***************************************************************************)
(* Model of the solar-fleet reporting pipeline:                            *)
(*   - api/sync-weekly-report.js   (the scheduled handler)                 *)
(*   - WeeklyPerformanceReport.jsx (login, roster, performance fetch)      *)
(*   - pages/AllGraph.jsx          (login of the multi-year view)          *)
(*                                                                         *)
(* Numbers.  Energy is held in fixed point: a kWh quantity is an integer   *)
(* number of thousandths of a kWh, so the code's "/ 1000" on a raw Wh      *)
(* reading is exact.  A value reported through toFixed(2) is held in       *)
(* hundredths, one reported through toFixed(3) in thousandths; toFixed is  *)
(* modelled as rounding to the nearest unit, ties upward (binary floating  *)
(* point representation error is not modelled).                            *)
(*                                                                         *)
(* Timestamps.  A time_stamp is a fixed-width digit string; it is held as  *)
(* [date, rest]: date is the number denoted by its first 8 characters and  *)
(* rest is 0 for an 8-character stamp and 1 for a stamp that carries       *)
(* further (time-of-day) characters.  String comparison of such stamps is  *)
(* the lexicographic comparison of <<date, rest>>.                         *)
(***************************************************************************)
EXTENDS Integers, Sequences, FiniteSets, TLC

VARIABLES
    \* ---- one per-inverter task of fetchPerformanceData (delta engine) ----
    taskPc,        \* "ready" | "fetched" | "done" | "off"
    taskSite,      \* "ui" (fetchPerformanceData) | "cron" (scheduled handler)
    taskInverter,  \* the roster record of the inverter being processed
    dateRange,     \* [startDate, endDate] selected by the caller (day numbers)
    dataArray,     \* the time series of the vendor's energy response
    sortedData,    \* the series after the sort
    dailyData,     \* the delta points derived from it
    taskRecord,    \* the performance record returned by the task
    \* ---- the scheduled handler (api/sync-weekly-report.js) ----
    cronPc,        \* "start" | "login" | "roster" | "batch" | "pause" | "submit" | "done" | "off"
    cronReq,       \* the invocation's headers: [userAgent, authorization]
    cronEnv,       \* process.env: [cronSecret, set] ("" = variable not set)
    cronToday,     \* new Date() of the invocation (a day number)
    cronLoginRes,  \* the vendor's login response, once received
    cronRosterRes, \* the sheet's roster response, once received
    cronSubmitRes, \* the sheet's answer to the write, once received
    cronToken,     \* token
    cronInverters, \* inverters
    cronI,         \* the batch loop's i
    cronPerformanceData, \* performanceData
    cronFaults,    \* roster position -> the failing response that inverter got
    cronCaught,    \* roster positions whose task ended in its catch block
    cronSent,      \* outbound requests issued so far, by kind
    cronPosted,    \* the data field of the write request
    cronResponses, \* what was sent through res, in order
    \* ---- login of the report UI and of AllGraph (handleAutoLogin) ----
    loginSite,     \* "wpr" (WeeklyPerformanceReport) | "allgraph" | "off"
    uiEnvComplete, \* the four VITE_ credentials are all set
    loginPc,       \* "unmounted" | "idle" | "request" (loginLoading) | "off"
    loginTimer,    \* the pending setTimeout of a retry: [pending, retryCount]
    loginRetryCount, \* retryCount of the latest call of handleAutoLogin
    loginRequests, \* login requests sent since the call with retryCount 0
    uiToken,       \* token of the device context (AllGraph: its token state)
    uiLocalToken,  \* localToken
    uiLoginSuccess, \* loginSuccess
    uiLoginError,  \* loginError
    uiStorage,     \* localStorage: [token, hasStamp, age] (solarToken, solarTokenTimestamp)
    uiPsKeys,      \* localStorage wpr_ps_keys_cache: inverterId -> ps_key
    uiLastEvent,   \* the latest thing that happened to the session
    \* ---- roster and performance fetch of the report UI ----
    rosterPc,      \* "idle" | "request" (isFetchingInvertersRef)
    uiInverters,   \* inverters
    uiInvertersFetched, \* invertersFetchedRef
    uiRosterToasts,     \* the kinds of the toasts the last roster load showed, in order
    uiRosterRes,        \* the sheet's answer to the last roster load
    uiError,       \* error
    fetchPc,       \* "idle" | "batch" | "pause" (loading.data)
    fetchInverters, \* the inverters the running fetch closed over
    fetchPsKeyCache, \* psKeyCache of the running fetch
    fetchI,        \* the batch loop's i
    fetchResults,  \* results
    fetchFaults,   \* position -> the failing response that inverter got
    fetchSent,     \* requests of the running fetch, by kind
    fetchRuns,     \* performance fetches started since the component mounted
    \* ---- results and sheet sync of the report UI (handleSyncCSVFormat) ----
    uiPerformanceData, \* performanceData
    syncPc,        \* "idle" | "request" (syncLoading)
    syncData,      \* syncData of the running or latest sync call
    syncPosted,    \* the running or latest sync call sent its POST to GOOGLE_SCRIPT_URL
    syncResult,    \* what the latest sync call returned: [given, success, error]
    uiSearchTerm,  \* searchTerm
    \* ---- the multi-year page (AllGraph.jsx) ----
    agPc,            \* "off" | "sheet" | "idle" | "login" | "devices" | "yearly"
    agInverterData,  \* inverterData
    agError,         \* error (of the sheet fetch)
    agSheetRes,      \* the sheet's answer to the page
    agSolarError,    \* solarError
    agYearRange,     \* yearRange: [startYear, endYear]
    agCloud,         \* the vendor's yearly readings: ps_key -> series
    agI,             \* i of the running batch loop
    agFetchedDevices, \* fetchedDevices of the running sync
    agDevices,       \* devices
    agNewYearlyData, \* newYearlyData of the running sync
    agYearlyData,    \* yearlyData
    agAggregatedData, \* aggregatedData
    agSent,          \* the device and history requests of the latest sync, in order
    psKeysAge,       \* hours since the timestamp stored with wpr_ps_keys_cache
    psResolvedAge,   \* inverterId -> hours since the vendor resolved its ps_key
    uiToday,         \* the calendar day of the page's clock (day 1 is a Monday)
    autoSyncTriggeredRef, \* autoSyncTriggeredRef.current: a day, 0 for null
    autoTimer,       \* the day captured by the pending 3 s auto-sync timer, 0 for none
    syncCaller,      \* who awaits the running handleSyncCSVFormat
    syncTodayStr,    \* todayStr of the auto-sync callback that awaits it, 0 for none
    syncRes,         \* the write endpoint's answer to the latest sync call
    uiSyncStatus,    \* syncStatus
    uiSyncInfo,      \* localStorage csvSyncInfo / lastCsvSync
    uiLastAutoSyncDate, \* localStorage lastAutoSyncDate: a day, 0 for none
    autoArmed,       \* the days on which the auto-sync effect set its timer since the
                     \* auto-sync history was last cleared, in order
    autoStarted      \* the days on which an automatic submission was posted, in order

deltaVars == <<taskPc, taskSite, taskInverter, dateRange, dataArray, sortedData, dailyData, taskRecord>>
cronVars == <<cronPc, cronReq, cronEnv, cronToday, cronLoginRes, cronRosterRes, cronSubmitRes,
              cronToken, cronInverters, cronI, cronPerformanceData, cronFaults, cronCaught, cronSent,
              cronPosted, cronResponses>>
loginVars == <<loginSite, uiEnvComplete, loginPc, loginTimer, loginRetryCount, loginRequests,
               uiToken, uiLocalToken, uiLoginSuccess, uiLoginError, uiStorage,
               uiPsKeys, uiLastEvent>>
fetchVars == <<rosterPc, uiInverters, uiInvertersFetched, uiRosterToasts, uiRosterRes, uiError, fetchPc,
               fetchInverters, fetchPsKeyCache, fetchI, fetchResults, fetchFaults, fetchSent, fetchRuns>>
syncVars == <<uiPerformanceData, syncPc, syncData, syncPosted, syncResult, uiSearchTerm>>
uiVars == <<loginVars, fetchVars, syncVars>>
agVars == <<agPc, agInverterData, agError, agSheetRes, agSolarError, agYearRange, agCloud, agI,
            agFetchedDevices, agDevices, agNewYearlyData, agYearlyData, agAggregatedData, agSent>>
cacheVars == <<psKeysAge, psResolvedAge>>
autoVars == <<uiToday, autoSyncTriggeredRef, autoTimer, syncCaller, syncTodayStr, syncRes, uiSyncStatus,
              uiSyncInfo, uiLastAutoSyncDate, autoArmed, autoStarted>>
vars == <<deltaVars, cronVars, uiVars, agVars, cacheVars, autoVars>>

\* ------------------------------------------------------------------ bounds
\* longest time series a response carries
MaxLen == 3

\* ------------------------------------------------------------- primitives
Max0(x) == IF x > 0 THEN x ELSE 0

\* Number(x.toFixed(k)) of a non-negative quotient num/den, in units of 10^-k:
\* the nearest integer to num/den, ties upward.  den > 0.
RoundDiv(num, den) == (2 * num + den) \div (2 * den)

\* The texts a sheet cell or a vendor value field holds in this model, and what
\* parseFloat makes of them (NaN for a text that does not start with a number).
NumericTexts == {"0", "1", "3", "-2", "1234", "5000"}
NumberOf(s) ==
    CASE s = "0" -> 0
      [] s = "1" -> 1
      [] s = "3" -> 3
      [] s = "-2" -> 0 - 2
      [] s = "1234" -> 1234
      [] s = "5000" -> 5000
      [] OTHER -> 0

\* parseFloat(s) || dflt : NaN and 0 are both falsy
ParseFloatOr(s, dflt) ==
    IF s \in NumericTexts /\ NumberOf(s) # 0 THEN NumberOf(s) ELSE dflt

\* ------------------------------------------------------------ time stamps
Days == 1..2
TimeStamps == {[date |-> 1, rest |-> 0], [date |-> 2, rest |-> 0], [date |-> 2, rest |-> 1]}

\* a.time_stamp.localeCompare(b.time_stamp) <= 0
StampLeq(a, b) == a.date < b.date \/ (a.date = b.date /\ a.rest <= b.rest)

\* item.date.slice(0, 8)
Slice8(ts) == ts.date

\* An item of the series: hasValueKey says whether the object has a key other
\* than time_stamp; raw is the text under that key.
ValueTexts == {"abc", "1234", "5000"}
Items ==
    {[time_stamp |-> t, hasValueKey |-> TRUE, raw |-> r] : t \in TimeStamps, r \in ValueTexts}
    \cup {[time_stamp |-> t, hasValueKey |-> FALSE, raw |-> ""] : t \in TimeStamps}

RECURSIVE SeqsUpTo(_, _)
SeqsUpTo(S, n) ==
    IF n = 0 THEN {<<>>}
    ELSE LET shorter == SeqsUpTo(S, n - 1)
         IN  shorter \cup {Append(s, x) : s \in {t \in shorter : Len(t) = n - 1}, x \in S}

Series == SeqsUpTo(Items, MaxLen)

\* ------------------------------------------------- telemetry delta engine
\* [...dataArray].sort((a, b) => a.time_stamp.localeCompare(b.time_stamp))
\* Array.prototype.sort is stable: equal stamps keep their order.
RECURSIVE InsertSorted(_, _)
InsertSorted(s, x) ==
    IF s = <<>> THEN <<x>>
    ELSE IF StampLeq(Head(s).time_stamp, x.time_stamp)
         THEN <<Head(s)>> \o InsertSorted(Tail(s), x)
         ELSE <<x>> \o s

RECURSIVE SortedData(_)
SortedData(arr) ==
    IF arr = <<>> THEN <<>>
    ELSE InsertSorted(SortedData(SubSeq(arr, 1, Len(arr) - 1)), arr[Len(arr)])

\* (parseFloat(item[valueKey]) || 0) / 1000, in thousandths of a kWh
CurrentKwh(item) == (ParseFloatOr(item.raw, 0) * 1000) \div 1000

\* Math.max(0, currentKwh - previousValue)
DailyKwh(currentKwh, previousValue) == Max0(currentKwh - previousValue)

\* previousValue after an emitted point: previousValue = currentKwh
NextPreviousKeepMax(currentKwh, previousValue) ==
    IF currentKwh > previousValue THEN currentKwh ELSE previousValue
NextPrevious(currentKwh, previousValue) == currentKwh

\* sortedData.forEach((item, idx) => ...): an item without a value key is
\* skipped; item 0 only seeds previousValue; every later item is pushed.
RECURSIVE WalkSorted(_, _, _, _)
WalkSorted(sorted, idx, previousValue, daily) ==
    IF idx > Len(sorted) THEN daily
    ELSE LET item == sorted[idx]
             currentKwh == CurrentKwh(item)
         IN  IF ~item.hasValueKey
             THEN WalkSorted(sorted, idx + 1, previousValue, daily)
             ELSE IF idx = 1
             THEN WalkSorted(sorted, idx + 1, currentKwh, daily)
             ELSE WalkSorted(sorted, idx + 1,
                             NextPrevious(currentKwh, previousValue),
                             Append(daily,
                                    [date |-> item.time_stamp,
                                     dailyKwh |-> DailyKwh(currentKwh, previousValue),
                                     cumulativeKwh |-> currentKwh]))

DailyData(sorted) == WalkSorted(sorted, 1, 0, <<>>)

\* itemDate >= startStr && itemDate <= endStr, itemDate = item.date.slice(0, 8)
InWindowWholeStamp(item, range) ==
    /\ StampLeq([date |-> range.startDate, rest |-> 0], item.date)
    /\ StampLeq(item.date, [date |-> range.endDate, rest |-> 0])
InWindow(item, range) ==
    /\ Slice8(item.date) >= range.startDate
    /\ Slice8(item.date) <= range.endDate

FilteredDailyData(daily, range) ==
    SelectSeq(daily, LAMBDA item : InWindow(item, range))

\* filteredDailyData.reduce((sum, day) => sum + day.dailyKwh, 0)
RECURSIVE ReduceDailyKwh(_)
ReduceDailyKwh(filtered) ==
    IF filtered = <<>> THEN 0
    ELSE Head(filtered).dailyKwh + ReduceDailyKwh(Tail(filtered))

TotalKwh(dataArr, range) ==
    ReduceDailyKwh(FilteredDailyData(DailyData(SortedData(dataArr)), range))

\* dailyData.length > 0 ? dailyData[dailyData.length - 1].cumulativeKwh : 0
LifetimeGeneration(daily) ==
    IF Len(daily) > 0 THEN daily[Len(daily)].cumulativeKwh ELSE 0

\* calculateDaysInRange: Math.ceil(|end - start| / one day) + 1
CalculateDaysInRange(range) ==
    (IF range.endDate >= range.startDate
     THEN range.endDate - range.startDate
     ELSE range.startDate - range.endDate) + 1

\* const daysInRange = 8 in the scheduled handler
CronDaysInRange == 8

\* daysInRange > 0 ? totalKwh / daysInRange : 0, reported with toFixed(2)
AvgDailyKwhFixed2(totalKwh, daysInRange) ==
    IF daysInRange > 0 THEN RoundDiv(totalKwh, 10 * daysInRange) ELSE 0

\* inverter.capacity > 0 ? avgDailyKwh / inverter.capacity : 0, reported with
\* toFixed(3); avgDailyKwh is the unrounded totalKwh / daysInRange
SpecYieldFixed3NoGuard(totalKwh, daysInRange, capacity) ==
    IF capacity # 0 /\ daysInRange > 0
    THEN (IF capacity > 0 THEN 1 ELSE 0 - 1)
         * RoundDiv(totalKwh, daysInRange * (IF capacity > 0 THEN capacity ELSE 0 - capacity))
    ELSE 0
SpecYieldFixed3(totalKwh, daysInRange, capacity) ==
    IF capacity > 0 /\ daysInRange > 0
    THEN RoundDiv(totalKwh, daysInRange * capacity)
    ELSE 0

\* The task's return value on the success path of fetchPerformanceData
\* (error: null is held as the empty text).
UiSuccessRecord(inverter, psKey, dataArr, range) ==
    LET daily == DailyData(SortedData(dataArr))
        totalKwh == TotalKwh(dataArr, range)
        daysInRange == CalculateDaysInRange(range)
    IN  [serialNo |-> inverter.serialNo,
         inverterId |-> inverter.inverterId,
         beneficiaryName |-> inverter.beneficiaryName,
         capacity |-> inverter.capacity,
         psKey |-> psKey,
         totalKwh |-> RoundDiv(totalKwh, 10),
         avgDailyKwh |-> AvgDailyKwhFixed2(totalKwh, daysInRange),
         specYield |-> SpecYieldFixed3(totalKwh, daysInRange, inverter.capacity),
         dailyData |-> daily,
         error |-> "",
         daysInRange |-> daysInRange,
         lifetimeGeneration |-> LifetimeGeneration(daily)]

\* The object the scheduled handler returns for an inverter whose two requests
\* succeeded; totalKwh is the sum it computed (0 when the response carried no
\* usable series).
CronRecord(inverter, totalKwh, lifetimeGeneration) ==
    [serialNo |-> inverter.serialNo,
     inverterId |-> inverter.inverterId,
     beneficiaryName |-> inverter.beneficiaryName,
     capacity |-> inverter.capacity,
     totalKwh |-> RoundDiv(totalKwh, 10),
     avgDailyKwh |-> AvgDailyKwhFixed2(totalKwh, CronDaysInRange),
     specYield |-> SpecYieldFixed3(totalKwh, CronDaysInRange, inverter.capacity),
     daysInRange |-> CronDaysInRange,
     lifetimeGeneration |-> lifetimeGeneration]

\* ------------------------------------------------- components not running
NoResponse == [given |-> FALSE]
NoRequests == [login |-> 0, roster |-> 0, device |-> 0, energy |-> 0, submit |-> 0]

CronOff ==
    /\ cronPc = "off"
    /\ cronReq = [userAgent |-> "", authorization |-> ""]
    /\ cronEnv = [cronSecret |-> "", set |-> {}]
    /\ cronToday = 0
    /\ cronLoginRes = NoResponse
    /\ cronRosterRes = NoResponse
    /\ cronSubmitRes = NoResponse
    /\ cronToken = ""
    /\ cronInverters = <<>>
    /\ cronI = 0
    /\ cronPerformanceData = <<>>
    /\ cronFaults = <<>>
    /\ cronCaught = {}
    /\ cronSent = NoRequests
    /\ cronPosted = <<>>
    /\ cronResponses = <<>>

EmptyStorage == [token |-> "", hasStamp |-> FALSE, age |-> 0]
NoTimer == [pending |-> FALSE, retryCount |-> 0]
NoFetchRequests == [device |-> 0, energy |-> 0]

\* no results yet, no sync call made
SyncIdle ==
    /\ uiPerformanceData = <<>>
    /\ syncPc = "idle"
    /\ syncData = <<>>
    /\ syncPosted = FALSE
    /\ syncResult = NoResponse
    /\ uiSearchTerm = ""

\* syncStatus before any sync
NoSync == [lastSync |-> 0]

\* a Monday, no auto-sync armed or recorded, no sync made
AutoOff ==
    /\ uiToday = 1
    /\ autoSyncTriggeredRef = 0
    /\ autoTimer = 0
    /\ syncCaller = "none"
    /\ syncTodayStr = 0
    /\ syncRes = NoResponse
    /\ uiSyncStatus = NoSync
    /\ uiSyncInfo = NoSync
    /\ uiLastAutoSyncDate = 0
    /\ autoArmed = <<>>
    /\ autoStarted = <<>>

\* the stored ps_key cache was written just now, by the run that resolved its keys
CacheFresh ==
    /\ psKeysAge = 0
    /\ psResolvedAge = [id \in DOMAIN uiPsKeys |-> 0]

UiOff ==
    /\ loginSite = "off"
    /\ uiEnvComplete = TRUE
    /\ loginPc = "off"
    /\ loginTimer = NoTimer
    /\ loginRetryCount = 0
    /\ loginRequests = 0
    /\ uiToken = ""
    /\ uiLocalToken = ""
    /\ uiLoginSuccess = FALSE
    /\ uiLoginError = ""
    /\ uiStorage = EmptyStorage
    /\ uiPsKeys = <<>>
    /\ uiLastEvent = "none"
    /\ rosterPc = "idle"
    /\ uiInverters = <<>>
    /\ uiInvertersFetched = FALSE
    /\ uiRosterToasts = <<>>
    /\ uiRosterRes = NoResponse
    /\ uiError = ""
    /\ fetchPc = "off"
    /\ fetchInverters = <<>>
    /\ fetchPsKeyCache = <<>>
    /\ fetchI = 0
    /\ fetchResults = <<>>
    /\ fetchFaults = <<>>
    /\ fetchSent = NoFetchRequests
    /\ fetchRuns = 0
    /\ SyncIdle
    /\ CacheFresh
    /\ AutoOff

AllGraphOff ==
    /\ agPc = "off"
    /\ agInverterData = <<>>
    /\ agError = ""
    /\ agSheetRes = NoResponse
    /\ agSolarError = ""
    /\ agYearRange = [startYear |-> 0, endYear |-> 0]
    /\ agCloud = <<>>
    /\ agI = 0
    /\ agFetchedDevices = <<>>
    /\ agDevices = <<>>
    /\ agNewYearlyData = <<>>
    /\ agYearlyData = <<>>
    /\ agAggregatedData = <<>>
    /\ agSent = <<>>

DeltaOff ==
    /\ taskPc = "off"
    /\ taskSite = "ui"
    /\ taskInverter = [serialNo |-> "", inverterId |-> "", beneficiaryName |-> "", capacity |-> 1]
    /\ dateRange = [startDate |-> 0, endDate |-> 0]
    /\ dataArray = <<>>
    /\ sortedData = <<>>
    /\ dailyData = <<>>
    /\ taskRecord = [error |-> "pending"]

\* ---------------------------------------------- specification SpecDelta
\* One per-inverter task on the path where both vendor requests succeeded and
\* the energy response carries an array: the inputs are drawn in Init and by
\* ReceiveEnergyData, the task's computation is one step.
CapacityCells == {"3", "-2", "0"}

\* start.setDate(start.getDate() - 7): the handler's window is [today - 7, today]
CronRange(today) == [startDate |-> today - 7, endDate |-> today]
CronTodays == {1, 2, 8, 9}
UiRanges == {[startDate |-> a, endDate |-> b] : a \in Days, b \in Days}

InitDelta ==
    /\ AllGraphOff
    /\ CronOff
    /\ UiOff
    /\ taskPc = "ready"
    /\ taskSite \in {"ui", "cron"}
    /\ \E cell \in CapacityCells :
          taskInverter = [serialNo |-> "49", inverterId |-> "I1", beneficiaryName |-> "NAME",
                          capacity |-> ParseFloatOr(cell, 1)]
    /\ dateRange \in IF taskSite = "ui" THEN UiRanges
                     ELSE {CronRange(t) : t \in CronTodays}
    /\ dataArray = <<>>
    /\ sortedData = <<>>
    /\ dailyData = <<>>
    /\ taskRecord = [error |-> "pending"]

ReceiveEnergyData ==
    /\ taskPc = "ready"
    /\ \E arr \in Series : dataArray' = arr
    /\ taskPc' = "fetched"
    /\ UNCHANGED <<taskSite, taskInverter, dateRange, sortedData, dailyData, taskRecord>>
    /\ UNCHANGED <<cronVars, uiVars, agVars, cacheVars, autoVars>>

ComputeUiRecord ==
    /\ taskPc = "fetched"
    /\ taskSite = "ui"
    /\ sortedData' = SortedData(dataArray)
    /\ dailyData' = DailyData(SortedData(dataArray))
    /\ taskRecord' = UiSuccessRecord(taskInverter, "K1", dataArray, dateRange)
    /\ taskPc' = "done"
    /\ UNCHANGED <<taskSite, taskInverter, dateRange, dataArray>>
    /\ UNCHANGED <<cronVars, uiVars, agVars, cacheVars, autoVars>>

ComputeCronRecord ==
    /\ taskPc = "fetched"
    /\ taskSite = "cron"
    /\ sortedData' = SortedData(dataArray)
    /\ dailyData' = DailyData(SortedData(dataArray))
    /\ taskRecord' = CronRecord(taskInverter, TotalKwh(dataArray, dateRange),
                                LifetimeGeneration(DailyData(SortedData(dataArray))))
    /\ taskPc' = "done"
    /\ UNCHANGED <<taskSite, taskInverter, dateRange, dataArray>>
    /\ UNCHANGED <<cronVars, uiVars, agVars, cacheVars, autoVars>>

NextDelta == ReceiveEnergyData \/ ComputeUiRecord \/ ComputeCronRecord

SpecDelta == InitDelta /\ [][NextDelta]_vars

\* =========================================================================
\* The scheduled handler, api/sync-weekly-report.js
\* =========================================================================
\* const batchSize = 5
CronBatchSize == 5
\* data rows of the largest roster a sheet response carries
MaxCronRoster == 6
\* inverters of one run whose vendor responses are not the normal ones
MaxFaults == 1

\* `Bearer ${process.env.CRON_SECRET}`
BearerOf(secret) == "Bearer " \o (IF secret = "" THEN "undefined" ELSE secret)

\* a check that rejects only a missing Authorization header
CronRejectsOnlyMissingHeader(req, env) ==
    /\ req.userAgent # "vercel-cron"
    /\ env.cronSecret # ""
    /\ req.authorization = ""

\* user-agent is not 'vercel-cron', CRON_SECRET is set and the Authorization
\* header differs from `Bearer ${CRON_SECRET}`
CronRejects(req, env) ==
    /\ req.userAgent # "vercel-cron"
    /\ env.cronSecret # ""
    /\ req.authorization # BearerOf(env.cronSecret)

RequiredEnv == {"VITE_SOLAR_APP_KEY", "VITE_SOLAR_SECRET_KEY", "VITE_USER_ACCOUNT",
                "VITE_USER_PASSWORD", "VITE_GOOGLE_SCRIPT_URL"}
ConfigMissing(env) == RequiredEnv \ env.set # {}

\* ---- vendor login response: [ok, parses, result_code, result_msg, token]
LoginResponse(ok, parses, code, msg, token) ==
    [given |-> TRUE, ok |-> ok, parses |-> parses, result_code |-> code,
     result_msg |-> msg, token |-> token]

\* the message of the error the handler throws on a login response, "" if none
\* as if a login answer without a token were accepted
CronLoginErrorIgnoringToken(res) ==
    IF ~res.ok THEN "Login failed with status"
    ELSE IF ~res.parses THEN "Unexpected token"
    ELSE IF res.result_code # "1" THEN "Login failed: " \o res.result_msg
    ELSE ""

CronLoginError(res) ==
    IF ~res.ok THEN "Login failed with status"
    ELSE IF ~res.parses THEN "Unexpected token"
    ELSE IF res.result_code # "1" THEN "Login failed: " \o res.result_msg
    ELSE IF res.token = "" THEN "No token received from server"
    ELSE ""

\* ---- roster response: [ok, text, shape, rows]; a row is its four cells
Trim(s) ==
    CASE s = " " -> ""
      [] s = " I2 " -> "I2"
      [] OTHER -> s

RosterResponse(ok, text, shape, rows) ==
    [given |-> TRUE, ok |-> ok, text |-> text, shape |-> shape, rows |-> rows]

\* JSON.parse(text), else the substring from the first "{" to the last "}"
RosterTextError(res) ==
    IF res.text \in {"json", "padded"} THEN ""
    ELSE IF res.text = "nobraces" THEN "Invalid JSON response from Google Sheets"
    ELSE "Unexpected token"

\* table.rows, a bare array, or values; anything else leaves rows = []
NormalizedRows(res) ==
    IF res.shape \in {"table", "array", "values"} THEN res.rows ELSE <<>>

\* one row of rows.forEach((row, index) => ...), index counted from 0
RosterEntry(row, index) ==
    [serialNo |-> IF Trim(row.c0) = "" THEN "S" \o ToString(index) ELSE Trim(row.c0),
     inverterId |-> Trim(row.c1),
     beneficiaryName |-> Trim(row.c2),
     capacity |-> ParseFloatOr(Trim(row.c3), 1)]

RowAccepted(row) == Trim(row.c1) # "" /\ Trim(row.c2) # ""

RECURSIVE InvertersFrom(_, _)
InvertersFrom(rows, pos) ==
    IF pos > Len(rows) THEN <<>>
    ELSE IF pos = 1 \/ ~RowAccepted(rows[pos])
         THEN InvertersFrom(rows, pos + 1)
         ELSE <<RosterEntry(rows[pos], pos - 1)>> \o InvertersFrom(rows, pos + 1)

ParsedInverters(res) == InvertersFrom(NormalizedRows(res), 1)

\* as if the handler went on with an empty roster
CronRosterErrorAllowsEmpty(res) ==
    IF ~res.ok THEN "Failed to fetch inverter list"
    ELSE IF RosterTextError(res) # "" THEN RosterTextError(res)
    ELSE ""

CronRosterError(res) ==
    IF ~res.ok THEN "Failed to fetch inverter list"
    ELSE IF RosterTextError(res) # "" THEN RosterTextError(res)
    ELSE IF Len(ParsedInverters(res)) = 0 THEN "No inverters found in the sheet."
    ELSE ""

\* ---- device response: [ok, status, parses, result_code, result_msg, keys];
\* keys lists the ps_key of each device_point_list entry, "" where absent
DeviceResponse(ok, status, parses, code, hasList, keys) ==
    [ok |-> ok, status |-> status, parses |-> parses, result_code |-> code,
     result_msg |-> IF code = "1" THEN "" ELSE "rejected", hasList |-> hasList, keys |-> keys]

\* the ps_key of the first entry, whether it has one or not
FirstEntryPsKey(keys) == IF keys = <<>> THEN "" ELSE Head(keys)

\* device_point_list.find(p => p?.device_point?.ps_key)?.device_point?.ps_key
RECURSIVE FirstPsKey(_)
FirstPsKey(keys) ==
    IF keys = <<>> THEN ""
    ELSE IF Head(keys) # "" THEN Head(keys) ELSE FirstPsKey(Tail(keys))

\* ---- energy response: [ok, status, parses, result_code, result_msg, shape,
\* series]; shape says what result_data holds: "none" (absent), "nokeys" ({}),
\* "nullentry" (result_data[psKey] is null), "notarray", "array"
EnergyResponse(ok, status, parses, code, shape, series) ==
    [ok |-> ok, status |-> status, parses |-> parses, result_code |-> code,
     result_msg |-> IF code = "1" THEN "" ELSE "rejected", shape |-> shape, series |-> series]

\* Object.keys(energyData.result_data[psKeyData]) throws on a null entry
EnergyShapeThrows(res) == res.result_code = "1" /\ res.shape = "nullentry"

HasSeries(res) == res.result_code = "1" /\ res.shape = "array"

\* One batchPromises task of the handler.  record is the sequence of what
\* survives filter(Boolean): empty for null, else the one returned object.
CronTask(inverter, deviceRes, energyRes, range) ==
    IF ~deviceRes.ok \/ ~deviceRes.parses
    THEN [record |-> <<>>, energyRequested |-> FALSE, caught |-> TRUE]
    ELSE IF ~deviceRes.hasList \/ FirstPsKey(deviceRes.keys) = ""
    THEN [record |-> <<>>, energyRequested |-> FALSE, caught |-> FALSE]
    ELSE IF ~energyRes.ok \/ ~energyRes.parses \/ EnergyShapeThrows(energyRes)
    THEN [record |-> <<>>, energyRequested |-> TRUE, caught |-> TRUE]
    ELSE LET series == IF HasSeries(energyRes) THEN energyRes.series ELSE <<>>
         IN  [record |-> <<CronRecord(inverter, TotalKwh(series, range),
                                     LifetimeGeneration(DailyData(SortedData(series))))>>,
              energyRequested |-> TRUE, caught |-> FALSE]

\* ---- the responses the environment may give ------------------------------
Item(date, raw) ==
    [time_stamp |-> [date |-> date, rest |-> 0], hasValueKey |-> TRUE, raw |-> raw]

\* apiStart.setDate(apiStart.getDate() - 1): the first day the handler and the
\* report UI ask the vendor for
ApiStartDate(range) == range.startDate - 1

\* a reading for the first day asked for, and for the first and the last day
\* of the window
NormalSeries(range) ==
    <<Item(ApiStartDate(range), "0"), Item(range.startDate, "1234"), Item(range.endDate, "5000")>>

PsKeyFor(inverterId) == "PS_" \o inverterId

NormalDevice(inverterId) == DeviceResponse(TRUE, 200, TRUE, "1", TRUE, <<"", PsKeyFor(inverterId)>>)
NormalEnergy(range) == EnergyResponse(TRUE, 200, TRUE, "1", "array", NormalSeries(range))

DeviceFaults ==
    {DeviceResponse(FALSE, 500, TRUE, "0", FALSE, <<>>),
     DeviceResponse(TRUE, 200, FALSE, "0", FALSE, <<>>),
     DeviceResponse(TRUE, 200, TRUE, "0", FALSE, <<>>),
     DeviceResponse(TRUE, 200, TRUE, "1", TRUE, <<"">>)}

EnergyFaults ==
    {EnergyResponse(FALSE, 500, TRUE, "0", "none", <<>>),
     EnergyResponse(TRUE, 200, FALSE, "0", "none", <<>>),
     EnergyResponse(TRUE, 200, TRUE, "0", "none", <<>>),
     EnergyResponse(TRUE, 200, TRUE, "1", "none", <<>>),
     EnergyResponse(TRUE, 200, TRUE, "1", "nokeys", <<>>),
     EnergyResponse(TRUE, 200, TRUE, "1", "nullentry", <<>>)}

\* what one faulty inverter gets: a failing device response, or the normal
\* device response followed by a failing energy response
Faults ==
    {[device |-> TRUE, res |-> d] : d \in DeviceFaults}
    \cup {[device |-> FALSE, res |-> e] : e \in EnergyFaults}

DeviceResFor(faults, pos, inverterId) ==
    IF pos \in DOMAIN faults /\ faults[pos].device
    THEN faults[pos].res ELSE NormalDevice(inverterId)
EnergyResFor(faults, pos, range) ==
    IF pos \in DOMAIN faults /\ ~faults[pos].device
    THEN faults[pos].res ELSE NormalEnergy(range)

\* the assignments of the failing responses in kinds to at most left positions
\* of lo..hi
FaultChoices(lo, hi, kinds, left) ==
    UNION {[F -> kinds] : F \in {G \in SUBSET (lo..hi) : Cardinality(G) <= left}}

CronLoginResponses ==
    {LoginResponse(FALSE, FALSE, "", "", ""),
     LoginResponse(TRUE, FALSE, "", "", ""),
     LoginResponse(TRUE, TRUE, "0", "rejected", ""),
     LoginResponse(TRUE, TRUE, "1", "", ""),
     LoginResponse(TRUE, TRUE, "1", "", "T1")}

HeaderRow == [c0 |-> "Sr", c1 |-> "Inverter ID", c2 |-> "Name", c3 |-> "Capacity"]
DataRow(k) ==
    [c0 |-> IF k = 1 THEN "49" ELSE "",
     c1 |-> IF k = 2 THEN " I2 " ELSE "I" \o ToString(k),
     c2 |-> "NAME",
     c3 |-> CASE k = 2 -> "-2" [] k = 3 -> "0" [] k = 4 -> "abc" [] OTHER -> "3"]
BlankIdRow == [c0 |-> "7", c1 |-> " ", c2 |-> "NAME", c3 |-> "3"]
BlankNameRow == [c0 |-> "8", c1 |-> "I8", c2 |-> "", c3 |-> "3"]

RosterOf(n) == <<HeaderRow>> \o [k \in 1..n |-> DataRow(k)]
MixedRoster == <<HeaderRow, BlankIdRow, DataRow(1), BlankNameRow>>

RosterResponses ==
    {RosterResponse(FALSE, "json", "table", <<>>),
     RosterResponse(TRUE, "nobraces", "table", <<>>),
     RosterResponse(TRUE, "badbraces", "table", <<>>),
     RosterResponse(TRUE, "json", "other", <<>>),
     RosterResponse(TRUE, "json", "table", <<>>),
     RosterResponse(TRUE, "json", "table", <<HeaderRow>>),
     RosterResponse(TRUE, "json", "table", <<HeaderRow, BlankIdRow, BlankNameRow>>),
     RosterResponse(TRUE, "padded", "table", RosterOf(1)),
     RosterResponse(TRUE, "json", "array", MixedRoster),
     RosterResponse(TRUE, "json", "values", MixedRoster),
     RosterResponse(TRUE, "json", "table", RosterOf(MaxCronRoster))}

\* the sheet's answer to the write: success is "true", "false" or "absent"
SubmitResponse(ok, parses, success) ==
    [given |-> TRUE, ok |-> ok, parses |-> parses, success |-> success,
     error |-> IF success = "false" THEN "sheet error" ELSE ""]
SubmitResponses ==
    {SubmitResponse(FALSE, TRUE, "absent"),
     SubmitResponse(TRUE, FALSE, "absent"),
     SubmitResponse(TRUE, TRUE, "absent"),
     SubmitResponse(TRUE, TRUE, "false"),
     SubmitResponse(TRUE, TRUE, "true")}

\* a check of the write's answer that never reads its success field
SubmitErrorIgnoringSuccess(res) ==
    IF ~res.ok THEN "Submit failed with status"
    ELSE IF ~res.parses THEN "Unexpected token"
    ELSE ""

\* the message the handler throws on the write's answer, "" if none
SubmitError(res) ==
    IF ~res.ok THEN "Submit failed with status"
    ELSE IF ~res.parses THEN "Unexpected token"
    ELSE IF res.success # "true"
         THEN (IF res.error # "" THEN res.error ELSE "Sync failed on Google apps script")
    ELSE ""

\* ---- the handler's steps --------------------------------------------------
HttpResponse(status, success, count, error) ==
    [status |-> status, success |-> success, count |-> count, error |-> error]

Sent(kind, n) == [cronSent EXCEPT ![kind] = @ + n]

\* the run day of the model's invocations
CronRunDay == 9

InitCron ==
    /\ DeltaOff
    /\ AllGraphOff
    /\ UiOff
    /\ cronPc = "start"
    /\ cronReq \in [userAgent : {"vercel-cron", "curl"},
                    authorization : {"", "Bearer S", "Bearer X"}]
    /\ cronEnv \in [cronSecret : {"", "S"},
                    set : {RequiredEnv, RequiredEnv \ {"VITE_GOOGLE_SCRIPT_URL"}}]
    /\ cronToday = CronRunDay
    /\ cronLoginRes = NoResponse
    /\ cronRosterRes = NoResponse
    /\ cronSubmitRes = NoResponse
    /\ cronToken = ""
    /\ cronInverters = <<>>
    /\ cronI = 0
    /\ cronPerformanceData = <<>>
    /\ cronFaults = <<>>
    /\ cronCaught = {}
    /\ cronSent = NoRequests
    /\ cronPosted = <<>>
    /\ cronResponses = <<>>

\* handler entry up to the first await: the authentication check, the
\* configuration check and the login request
CronInvoke ==
    /\ cronPc = "start"
    /\ IF CronRejects(cronReq, cronEnv)
       THEN /\ cronResponses' = Append(cronResponses, HttpResponse(401, "absent", 0, "Unauthorized"))
            /\ cronPc' = "done"
            /\ UNCHANGED cronSent
       ELSE IF ConfigMissing(cronEnv)
       THEN /\ cronResponses' = Append(cronResponses, HttpResponse(500, "absent", 0, "Missing API credentials"))
            /\ cronPc' = "done"
            /\ UNCHANGED cronSent
       ELSE /\ cronSent' = Sent("login", 1)
            /\ cronPc' = "login"
            /\ UNCHANGED cronResponses
    /\ UNCHANGED <<cronReq, cronEnv, cronToday, cronLoginRes, cronRosterRes, cronSubmitRes,
                   cronToken, cronInverters, cronI, cronPerformanceData, cronFaults, cronCaught, cronPosted>>
    /\ UNCHANGED <<deltaVars, agVars, cacheVars, autoVars, uiVars>>

\* the catch block: res.status(500).json({ success: false, error: err.message })
CronFail(message) ==
    /\ cronResponses' = Append(cronResponses, HttpResponse(500, "false", 0, message))
    /\ cronPc' = "done"

CronLoginResponse ==
    /\ cronPc = "login"
    /\ \E res \in CronLoginResponses :
          /\ cronLoginRes' = res
          /\ IF CronLoginError(res) # ""
             THEN /\ CronFail(CronLoginError(res))
                  /\ UNCHANGED <<cronToken, cronSent>>
             ELSE /\ cronToken' = res.token
                  /\ cronSent' = Sent("roster", 1)
                  /\ cronPc' = "roster"
                  /\ UNCHANGED cronResponses
    /\ UNCHANGED <<cronReq, cronEnv, cronToday, cronRosterRes, cronSubmitRes,
                   cronInverters, cronI, cronPerformanceData, cronFaults, cronCaught, cronPosted>>
    /\ UNCHANGED <<deltaVars, agVars, cacheVars, autoVars, uiVars>>

CronRosterResponse ==
    /\ cronPc = "roster"
    /\ \E res \in RosterResponses :
          /\ cronRosterRes' = res
          /\ IF CronRosterError(res) # ""
             THEN /\ CronFail(CronRosterError(res))
                  /\ UNCHANGED cronInverters
             ELSE /\ cronInverters' = ParsedInverters(res)
                  /\ cronPc' = "batch"
                  /\ UNCHANGED cronResponses
    /\ UNCHANGED <<cronReq, cronEnv, cronToday, cronLoginRes, cronSubmitRes, cronToken,
                   cronI, cronPerformanceData, cronFaults, cronCaught, cronSent, cronPosted>>
    /\ UNCHANGED <<deltaVars, agVars, cacheVars, autoVars, uiVars>>

\* results of inverters lo..hi in roster order: normal holds those of the
\* inverters that get the normal responses, the others get their faults
CronNormalResults(lo, hi, range) ==
    [k \in 1..(hi - lo + 1) |->
        CronTask(cronInverters[lo + k - 1], NormalDevice(cronInverters[lo + k - 1].inverterId),
                 NormalEnergy(range), range)]

CronBatchResults(normal, lo, faults, range) ==
    [k \in DOMAIN normal |->
        IF lo + k - 1 \in DOMAIN faults
        THEN CronTask(cronInverters[lo + k - 1],
                      DeviceResFor(faults, lo + k - 1, cronInverters[lo + k - 1].inverterId),
                      EnergyResFor(faults, lo + k - 1, range), range)
        ELSE normal[k]]

\* the results up to the first task that returned nothing
RECURSIVE RecordsFromUntilNull(_, _)
RecordsFromUntilNull(results, k) ==
    IF k > Len(results) \/ results[k].record = <<>> THEN <<>>
    ELSE results[k].record \o RecordsFromUntilNull(results, k + 1)

\* batchResults.filter(Boolean), spread into the collected records
RECURSIVE RecordsFrom(_, _)
RecordsFrom(results, k) ==
    IF k > Len(results) THEN <<>> ELSE results[k].record \o RecordsFrom(results, k + 1)

Records(results) == RecordsFrom(results, 1)

EnergyRequests(results) ==
    Cardinality({k \in 1..Len(results) : results[k].energyRequested})

Min(a, b) == IF a < b THEN a ELSE b

\* one pass of the for loop up to its pause: the batch's tasks are started
\* together and awaited with Promise.all; the tasks share no state, so the
\* order in which their responses arrive does not matter and the batch is
\* taken as one step
CronRunBatch ==
    /\ cronPc = "batch"
    /\ LET lo == cronI + 1
           hi == Min(cronI + CronBatchSize, Len(cronInverters))
           normal == CronNormalResults(lo, hi, CronRange(cronToday))
       IN  \E faults \in FaultChoices(lo, hi, Faults, MaxFaults - Cardinality(DOMAIN cronFaults)) :
              LET results == CronBatchResults(normal, lo, faults, CronRange(cronToday))
              IN  /\ cronPerformanceData' = cronPerformanceData \o Records(results)
                  /\ cronFaults' = [k \in DOMAIN cronFaults \cup DOMAIN faults |->
                                       IF k \in DOMAIN faults THEN faults[k] ELSE cronFaults[k]]
                  /\ cronCaught' = cronCaught
                                    \cup {lo + k - 1 : k \in {j \in 1..Len(results) : results[j].caught}}
                  /\ cronSent' = [cronSent EXCEPT !.device = @ + (hi - lo + 1),
                                                  !.energy = @ + EnergyRequests(results)]
    /\ cronPc' = "pause"
    /\ UNCHANGED <<cronReq, cronEnv, cronToday, cronLoginRes, cronRosterRes, cronSubmitRes,
                   cronToken, cronInverters, cronI, cronPosted, cronResponses>>
    /\ UNCHANGED <<deltaVars, agVars, cacheVars, autoVars, uiVars>>

\* as if the write followed the first batch that collected a record
CronAfterPauseWritesEarly ==
    /\ cronPc = "pause"
    /\ cronI' = cronI + CronBatchSize
    /\ IF Len(cronPerformanceData) = 0 /\ cronI + CronBatchSize < Len(cronInverters)
       THEN /\ cronPc' = "batch"
            /\ UNCHANGED <<cronResponses, cronSent, cronPosted>>
       ELSE IF Len(cronPerformanceData) = 0
       THEN /\ CronFail("No valid inverter data successfully collected to sync")
            /\ UNCHANGED <<cronSent, cronPosted>>
       ELSE /\ cronPosted' = cronPerformanceData
            /\ cronSent' = Sent("submit", 1)
            /\ cronPc' = "submit"
            /\ UNCHANGED cronResponses
    /\ UNCHANGED <<cronReq, cronEnv, cronToday, cronLoginRes, cronRosterRes, cronSubmitRes,
                   cronToken, cronInverters, cronPerformanceData, cronFaults, cronCaught>>
    /\ UNCHANGED <<deltaVars, agVars, cacheVars, autoVars, uiVars>>

\* after the 500 ms pause: the next batch, or the end of the loop and the write
CronAfterPause ==
    /\ cronPc = "pause"
    /\ cronI' = cronI + CronBatchSize
    /\ IF cronI + CronBatchSize < Len(cronInverters)
       THEN /\ cronPc' = "batch"
            /\ UNCHANGED <<cronResponses, cronSent, cronPosted>>
       ELSE IF Len(cronPerformanceData) = 0
       THEN /\ CronFail("No valid inverter data successfully collected to sync")
            /\ UNCHANGED <<cronSent, cronPosted>>
       ELSE /\ cronPosted' = cronPerformanceData
            /\ cronSent' = Sent("submit", 1)
            /\ cronPc' = "submit"
            /\ UNCHANGED cronResponses
    /\ UNCHANGED <<cronReq, cronEnv, cronToday, cronLoginRes, cronRosterRes, cronSubmitRes,
                   cronToken, cronInverters, cronPerformanceData, cronFaults, cronCaught>>
    /\ UNCHANGED <<deltaVars, agVars, cacheVars, autoVars, uiVars>>

CronSubmitResponse ==
    /\ cronPc = "submit"
    /\ \E res \in SubmitResponses :
          /\ cronSubmitRes' = res
          /\ IF SubmitError(res) # ""
             THEN CronFail(SubmitError(res))
             ELSE /\ cronResponses' = Append(cronResponses,
                                             HttpResponse(200, "true", Len(cronPerformanceData), ""))
                  /\ cronPc' = "done"
    /\ UNCHANGED <<cronReq, cronEnv, cronToday, cronLoginRes, cronRosterRes, cronToken,
                   cronInverters, cronI, cronPerformanceData, cronFaults, cronCaught, cronSent, cronPosted>>
    /\ UNCHANGED <<deltaVars, agVars, cacheVars, autoVars, uiVars>>

NextCron ==
    \/ CronInvoke
    \/ CronLoginResponse
    \/ CronRosterResponse
    \/ CronRunBatch
    \/ CronAfterPause
    \/ CronSubmitResponse

SpecCron == InitCron /\ [][NextCron]_vars

\* =========================================================================
\* The report UI, WeeklyPerformanceReport.jsx, and the login of AllGraph.jsx
\* =========================================================================
\* login requests of one invocation after which the model follows it no further
MaxLoginRequests == 4

\* tokenAge > 55 * 60 * 1000 (isTokenExpired), in minutes
WprTokenTtl == 55
\* tokenAge < 60 * 60 * 1000 (AllGraph), in minutes
AllGraphTokenTtl == 60

\* localStorage after setItem of both keys at Date.now()
StoredSession(token) == [token |-> token, hasStamp |-> TRUE, age |-> 0]

\* isTokenExpired(localStorage.getItem(TOKEN_TIMESTAMP))
IsTokenExpired(storage) == ~storage.hasStamp \/ storage.age > WprTokenTtl

\* savedToken && tokenTimestamp && tokenAge < 60 min
AllGraphStoredValid(storage) ==
    storage.token # "" /\ storage.hasStamp /\ storage.age < AllGraphTokenTtl

\* clearToken() of the device context: the context's token afterwards, and
\* what it does to localStorage (the component removes the keys itself)
ClearedToken == ""
ClearTokenStorage(storage) == storage

\* clearCachedData(CACHE_KEYS.TOKEN)
RemoveToken(storage) == [storage EXCEPT !.token = ""]

\* ---- what comes back for a login request: the fetch promise rejects with
\* a message, or a response [ok, parses, result_code, result_msg, token]
LoginRejection(message) ==
    [rejects |-> TRUE, message |-> message, ok |-> FALSE, parses |-> FALSE,
     result_code |-> "", result_msg |-> "", token |-> ""]
LoginAnswer(ok, parses, code, msg, token) ==
    [rejects |-> FALSE, message |-> "", ok |-> ok, parses |-> parses,
     result_code |-> code, result_msg |-> msg, token |-> token]

UiLoginAnswers ==
    {LoginRejection("Failed to fetch"),
     LoginRejection("network timeout"),
     LoginRejection("Load failed"),
     LoginAnswer(FALSE, TRUE, "", "", ""),
     LoginAnswer(TRUE, FALSE, "", "", ""),
     LoginAnswer(TRUE, TRUE, "0", "Server Busy", ""),
     LoginAnswer(TRUE, TRUE, "0", "system busy", ""),
     LoginAnswer(TRUE, TRUE, "0", "bad password", ""),
     LoginAnswer(TRUE, TRUE, "1", "", ""),
     LoginAnswer(TRUE, TRUE, "1", "", "T1")}

\* String.prototype.toLowerCase and includes on the messages of the model
ToLowerCase(msg) == IF msg = "Server Busy" THEN "server busy" ELSE msg
IncludesBusy(msg) == msg \in {"server busy", "system busy"}
IncludesNetwork(msg) == msg = "network timeout"
IncludesFailedToFetch(msg) == msg = "Failed to fetch"

\* ---- handleAutoLogin of WeeklyPerformanceReport
\* result.result_msg?.toLowerCase().includes('busy') && retryCount < 2
WprBusyRetry(answer, retryCount) ==
    /\ ~answer.rejects /\ answer.parses /\ answer.ok
    /\ answer.result_code # "1"
    /\ IncludesBusy(ToLowerCase(answer.result_msg))
    /\ retryCount < 2

\* the message of the error the try block throws on the answer, "" if none
WprThrown(answer) ==
    IF answer.rejects THEN answer.message
    ELSE IF ~answer.parses THEN "Invalid server response. Please try again."
    ELSE IF ~answer.ok
         THEN (IF answer.result_msg # "" THEN answer.result_msg ELSE "Server error")
    ELSE IF answer.result_code = "1"
         THEN (IF answer.token = "" THEN "No token received from server" ELSE "")
    ELSE IF answer.result_msg # "" THEN answer.result_msg
    ELSE "Login failed with unknown error"

\* retryCount < 2 && err.message.includes('network') ||
\* err.message.includes('Failed to fetch')        (&& binds tighter than ||)
WprNetworkRetry(msg, retryCount) ==
    (retryCount < 2 /\ IncludesNetwork(msg)) \/ IncludesFailedToFetch(msg)

\* ---- handleAutoLogin of AllGraph
\* result.result_msg?.includes('busy') && retryCount < 2
AllGraphBusyRetry(answer, retryCount) ==
    /\ ~answer.rejects /\ answer.parses /\ answer.ok
    /\ answer.result_code # "1"
    /\ IncludesBusy(answer.result_msg)
    /\ retryCount < 2

AllGraphThrown(answer) ==
    IF answer.rejects THEN answer.message
    ELSE IF ~answer.parses THEN "Invalid server response. Please try again."
    ELSE IF ~answer.ok THEN "Server error"
    ELSE IF answer.result_code = "1" THEN ""
    ELSE IF answer.result_msg # "" THEN answer.result_msg
    ELSE "Login failed"

\* if (retryCount < 2) in the catch block
AllGraphCatchRetry(retryCount) == retryCount < 2

\* ---- steps shared by the callers of handleAutoLogin ----------------------
\* setLoginError(message); setLoginSuccess(false)
LoginSurface(msg) ==
    /\ uiLoginError' = msg
    /\ uiLoginSuccess' = FALSE
    /\ loginTimer' = NoTimer
    /\ uiLastEvent' = "loginFailed"

\* setTimeout(() => handleAutoLogin(retryCount + 1), ...)
LoginRetryLater(retryCount, event) ==
    /\ loginTimer' = [pending |-> TRUE, retryCount |-> retryCount + 1]
    /\ uiLoginError' = ""
    /\ uiLastEvent' = event
    /\ UNCHANGED uiLoginSuccess

\* the catch block of WeeklyPerformanceReport's handleAutoLogin
WprCatch(msg, retryCount, event) ==
    /\ uiToken' = ClearedToken
    /\ uiStorage' = EmptyStorage
    /\ IF WprNetworkRetry(msg, retryCount)
       THEN LoginRetryLater(retryCount, event)
       ELSE LoginSurface(msg)

\* the catch block of AllGraph's handleAutoLogin
AllGraphCatch(msg, retryCount, storage, event) ==
    /\ uiToken' = uiToken
    /\ uiStorage' = storage
    /\ IF AllGraphCatchRetry(retryCount)
       THEN LoginRetryLater(retryCount, event)
       ELSE LoginSurface(msg)

\* handleAutoLogin(retryCount) up to its first await: the credentials check
\* and the login request.  requests counts those of the invocation so
\* far; storage and event are localStorage and the latest event as the caller
\* leaves them.
LoginStart(retryCount, requests, storage, event) ==
    /\ loginRetryCount' = retryCount
    /\ IF uiEnvComplete
       THEN /\ requests < MaxLoginRequests
            /\ loginPc' = "request"
            /\ loginRequests' = requests + 1
            /\ loginTimer' = NoTimer
            /\ uiLoginError' = ""
            /\ uiStorage' = storage
            /\ uiLastEvent' = event
            /\ UNCHANGED <<uiToken, uiLoginSuccess>>
       ELSE /\ loginPc' = "idle"
            /\ loginRequests' = requests
            /\ IF loginSite = "wpr"
               THEN WprCatch("Missing API credentials", retryCount, event)
               ELSE AllGraphCatch("Missing API credentials", retryCount, storage, event)

\* ---- the login steps -------------------------------------------------------
\* The user, the effects and the timers of a component act one at a time: a
\* step that starts a request is taken while no other request of the
\* component is in flight.
\* ages of a stored issue time, in minutes: fresh, or past the 55 minutes of
\* isTokenExpired, for AllGraph past its 60 minutes
ExpiredAge(site) == IF site = "wpr" THEN WprTokenTtl + 1 ELSE AllGraphTokenTtl + 1
StorageAges(site) == {0, ExpiredAge(site)}

InitUi ==
    /\ DeltaOff
    /\ AllGraphOff
    /\ CronOff
    /\ loginSite \in {"wpr", "allgraph"}
    /\ uiEnvComplete \in BOOLEAN
    /\ loginPc = "unmounted"
    /\ loginTimer = NoTimer
    /\ loginRetryCount = 0
    /\ loginRequests = 0
    /\ uiToken = ""
    /\ uiLocalToken = ""
    /\ uiLoginSuccess = FALSE
    /\ uiLoginError = ""
    /\ uiStorage \in {EmptyStorage}
                    \cup {[token |-> "T0", hasStamp |-> TRUE, age |-> a] : a \in StorageAges(loginSite)}
                    \cup {[token |-> "", hasStamp |-> TRUE, age |-> 0]}
    /\ uiEnvComplete \/ uiStorage = EmptyStorage
    /\ uiPsKeys = <<>>
    /\ uiLastEvent = "none"
    /\ rosterPc = "idle"
    /\ uiInverters = <<>>
    /\ uiInvertersFetched = FALSE
    /\ uiRosterToasts = <<>>
    /\ uiRosterRes = NoResponse
    /\ uiError = ""
    /\ fetchPc = "idle"
    /\ fetchInverters = <<>>
    /\ fetchPsKeyCache = <<>>
    /\ fetchI = 0
    /\ fetchResults = <<>>
    /\ fetchFaults = <<>>
    /\ fetchSent = NoFetchRequests
    /\ fetchRuns = 0
    /\ SyncIdle
    /\ CacheFresh
    /\ AutoOff

\* the mount effect: restore a stored session that is still valid, else log in
UiMount ==
    /\ loginPc = "unmounted"
    /\ IF loginSite = "wpr"
       THEN IF uiStorage.token # "" /\ uiStorage.hasStamp
            THEN IF ~IsTokenExpired(uiStorage)
                 THEN /\ uiLocalToken' = uiStorage.token
                      /\ uiToken' = uiStorage.token
                      /\ uiLoginSuccess' = TRUE
                      /\ loginPc' = "idle"
                      /\ uiLastEvent' = "restored"
                      /\ UNCHANGED <<loginTimer, loginRetryCount, loginRequests, uiLoginError, uiStorage>>
                 ELSE /\ LoginStart(0, 0, EmptyStorage, "expired")
                      /\ UNCHANGED uiLocalToken
            ELSE /\ LoginStart(0, 0, uiStorage, "mounted")
                 /\ UNCHANGED uiLocalToken
       ELSE IF AllGraphStoredValid(uiStorage)
            THEN /\ uiToken' = uiStorage.token
                 /\ uiLoginSuccess' = TRUE
                 /\ loginPc' = "idle"
                 /\ uiLastEvent' = "restored"
                 /\ UNCHANGED <<loginTimer, loginRetryCount, loginRequests, uiLoginError, uiStorage, uiLocalToken>>
            ELSE /\ LoginStart(0, 0, uiStorage, "mounted")
                 /\ UNCHANGED uiLocalToken
    /\ UNCHANGED <<loginSite, uiEnvComplete, uiPsKeys>>
    /\ UNCHANGED <<deltaVars, agVars, cacheVars, autoVars, cronVars, fetchVars, syncVars>>

\* the answer ends the attempts with a session
LoginSucceeds(answer) ==
    IF loginSite = "wpr"
    THEN ~WprBusyRetry(answer, loginRetryCount) /\ WprThrown(answer) = ""
    ELSE ~AllGraphBusyRetry(answer, loginRetryCount) /\ AllGraphThrown(answer) = ""

\* the answer to the login request arrives: the rest of handleAutoLogin
LoginAnswered ==
    /\ loginPc = "request"
    /\ loginPc' = "idle"
    /\ loginRetryCount' = 0
    /\ \E answer \in UiLoginAnswers :
          /\ loginRequests' = IF LoginSucceeds(answer) THEN 0 ELSE loginRequests
          /\ IF loginSite = "wpr"
             THEN IF WprBusyRetry(answer, loginRetryCount)
                  THEN /\ LoginRetryLater(loginRetryCount, uiLastEvent)
                       /\ UNCHANGED <<uiToken, uiLocalToken, uiStorage>>
                  ELSE IF WprThrown(answer) = ""
                  THEN /\ uiLocalToken' = answer.token
                       /\ uiToken' = answer.token
                       /\ uiLoginSuccess' = TRUE
                       /\ uiLoginError' = ""
                       /\ uiStorage' = StoredSession(answer.token)
                       /\ loginTimer' = NoTimer
                       /\ uiLastEvent' = "loginOk"
                  ELSE /\ WprCatch(WprThrown(answer), loginRetryCount, uiLastEvent)
                       /\ UNCHANGED uiLocalToken
             ELSE IF AllGraphBusyRetry(answer, loginRetryCount)
                  THEN /\ LoginRetryLater(loginRetryCount, uiLastEvent)
                       /\ UNCHANGED <<uiToken, uiLocalToken, uiStorage>>
                  ELSE IF AllGraphThrown(answer) = ""
                  THEN /\ uiToken' = answer.token
                       /\ uiLoginSuccess' = TRUE
                       /\ uiLoginError' = ""
                       /\ uiStorage' = StoredSession(answer.token)
                       /\ loginTimer' = NoTimer
                       /\ uiLastEvent' = "loginOk"
                       /\ UNCHANGED uiLocalToken
                  ELSE /\ AllGraphCatch(AllGraphThrown(answer), loginRetryCount,
                                        uiStorage, uiLastEvent)
                       /\ UNCHANGED uiLocalToken
    /\ UNCHANGED <<loginSite, uiEnvComplete, uiPsKeys>>
    /\ UNCHANGED <<deltaVars, agVars, cacheVars, autoVars, cronVars, fetchVars, syncVars>>

\* the retry timer fires: handleAutoLogin(retryCount + 1)
LoginTimerFires ==
    /\ loginTimer.pending
    /\ loginPc = "idle"
    /\ LoginStart(loginTimer.retryCount, loginRequests, uiStorage, uiLastEvent)
    /\ UNCHANGED <<loginSite, uiEnvComplete, uiLocalToken, uiPsKeys>>
    /\ UNCHANGED <<deltaVars, agVars, cacheVars, autoVars, cronVars, fetchVars, syncVars>>

\* the Retry Login button of the login banner: handleAutoLogin(0)
LoginRetryButton ==
    /\ loginPc = "idle"
    /\ ~loginTimer.pending
    /\ rosterPc = "idle"
    /\ fetchPc = "idle"
    /\ uiLoginError # "" \/ (uiLocalToken = "" /\ uiToken = "")
    /\ LoginStart(0, 0, uiStorage, uiLastEvent)
    /\ UNCHANGED <<loginSite, uiEnvComplete, uiLocalToken, uiPsKeys>>
    /\ UNCHANGED <<deltaVars, agVars, cacheVars, autoVars, cronVars, fetchVars, syncVars>>

\* the stored issue time grows older
TimePasses ==
    /\ loginPc = "idle"
    /\ rosterPc = "idle"
    /\ fetchPc = "idle"
    /\ uiStorage.hasStamp
    /\ uiStorage.age < ExpiredAge(loginSite)
    /\ uiStorage' = [uiStorage EXCEPT !.age = ExpiredAge(loginSite)]
    /\ UNCHANGED <<loginSite, uiEnvComplete, loginPc, loginTimer, loginRetryCount, loginRequests,
                   uiToken, uiLocalToken, uiLoginSuccess, uiLoginError, uiPsKeys,
                   uiLastEvent>>
    /\ UNCHANGED <<deltaVars, agVars, cacheVars, autoVars, cronVars, fetchVars, syncVars>>

\* ---- roster and performance fetch of WeeklyPerformanceReport --------------
\* const batchSize = 10
UiBatchSize == 10
\* inverters of the largest roster the sheet returns to the UI
MaxUiRoster == 11
\* inverters of one fetch run whose vendor responses are not the normal ones
MaxUiFaults == 1
\* performance fetches of one mounted component
MaxFetchRuns == 1

\* const activeToken = localToken || token
ActiveToken == IF uiLocalToken # "" THEN uiLocalToken ELSE uiToken

\* the default date range: the last 7 days
UiRunRange == CronRange(CronRunDay)

\* as if a sheet answer with success: false were not thrown
UiRosterErrorIgnoringFailure(res) ==
    IF ~res.ok THEN "Failed to fetch inverter list"
    ELSE IF RosterTextError(res) # "" THEN RosterTextError(res)
    ELSE ""

\* the message fetchInverterList throws on the sheet's answer, "" if none
UiRosterError(res) ==
    IF ~res.ok THEN "Failed to fetch inverter list"
    ELSE IF RosterTextError(res) # "" THEN RosterTextError(res)
    ELSE IF res.shape = "failure" THEN "Failed to fetch sheet data"
    ELSE ""

\* the three sampleInverters of the catch block
SampleInverters ==
    <<[serialNo |-> "49", inverterId |-> "I2492100573", beneficiaryName |-> "RAHUL SHARMA", capacity |-> 3],
      [serialNo |-> "29", inverterId |-> "I2492100118", beneficiaryName |-> "JACKY SANCHETI", capacity |-> 3],
      [serialNo |-> "19", inverterId |-> "I2460100025", beneficiaryName |-> "JAI KUMAR NEBHANI", capacity |-> 3]>>

UiRosterResponses ==
    {RosterResponse(FALSE, "json", "table", <<>>),
     RosterResponse(TRUE, "json", "failure", <<>>),
     RosterResponse(TRUE, "json", "table", <<HeaderRow>>),
     RosterResponse(TRUE, "json", "table", <<HeaderRow, BlankIdRow, BlankNameRow>>),
     RosterResponse(TRUE, "padded", "table", RosterOf(1)),
     RosterResponse(TRUE, "json", "table", RosterOf(MaxUiRoster))}

\* the objects a task of fetchPerformanceData returns without metrics:
\* on a device or energy response it does not accept (psKey: null is "")
UiErrorRecord(inverter, psKey, error, daysInRange) ==
    [serialNo |-> inverter.serialNo,
     inverterId |-> inverter.inverterId,
     beneficiaryName |-> inverter.beneficiaryName,
     capacity |-> inverter.capacity,
     psKey |-> psKey,
     totalKwh |-> 0,
     avgDailyKwh |-> 0,
     specYield |-> 0,
     dailyData |-> <<>>,
     error |-> error,
     daysInRange |-> daysInRange]

\* and from its catch block
UiCaughtRecord(inverter, error, daysInRange) ==
    [serialNo |-> inverter.serialNo,
     inverterId |-> inverter.inverterId,
     beneficiaryName |-> inverter.beneficiaryName,
     capacity |-> inverter.capacity,
     error |-> error,
     totalKwh |-> 0,
     avgDailyKwh |-> 0,
     specYield |-> 0,
     dailyData |-> <<>>,
     daysInRange |-> daysInRange,
     lifetimeGeneration |-> 0]

\* deviceRes.status === 401 || deviceRes.status === 403 (same for energyRes)
IsAuthStatus(status) == status = 401 \/ status = 403

\* the message thrown on a non-2xx device or energy response
StatusError(res, what) ==
    IF IsAuthStatus(res.status) THEN "Session expired. Please login again."
    ELSE "Failed to fetch " \o what \o " data: " \o ToString(res.status)

UiTaskResult(record, deviceRequested, energyRequested, psKey, sessionCleared) ==
    [record |-> <<record>>, deviceRequested |-> deviceRequested,
     energyRequested |-> energyRequested, psKey |-> psKey, sessionCleared |-> sessionCleared]

\* the energy half of a task, once psKey is known
UiEnergyStep(inverter, psKey, deviceRequested, energyRes, range) ==
    LET days == CalculateDaysInRange(range)
    IN  IF ~energyRes.ok
        THEN UiTaskResult(UiCaughtRecord(inverter, StatusError(energyRes, "energy"), days),
                          deviceRequested, TRUE, psKey, IsAuthStatus(energyRes.status))
        ELSE IF ~energyRes.parses
        THEN UiTaskResult(UiCaughtRecord(inverter, "Unexpected token", days),
                          deviceRequested, TRUE, psKey, FALSE)
        ELSE IF ~(energyRes.result_code = "1" /\ energyRes.shape # "none")
        THEN UiTaskResult(UiErrorRecord(inverter, psKey,
                                        IF energyRes.result_msg # "" THEN energyRes.result_msg
                                        ELSE "Invalid energy data", days),
                          deviceRequested, TRUE, psKey, FALSE)
        ELSE IF EnergyShapeThrows(energyRes)
        THEN UiTaskResult(UiCaughtRecord(inverter, "Cannot convert undefined or null to object", days),
                          deviceRequested, TRUE, psKey, FALSE)
        ELSE UiTaskResult(UiSuccessRecord(inverter, psKey,
                                          IF HasSeries(energyRes) THEN energyRes.series ELSE <<>>,
                                          range),
                          deviceRequested, TRUE, psKey, FALSE)

\* One batchPromises task of fetchPerformanceData.  cachedKey is
\* psKeyCache[inverterId], "" if there is none; psKey of the result is what
\* the task leaves in psKeyCache[inverterId].
UiTask(inverter, cachedKey, deviceRes, energyRes, range) ==
    LET days == CalculateDaysInRange(range)
    IN  IF cachedKey # ""
        THEN UiEnergyStep(inverter, cachedKey, FALSE, energyRes, range)
        ELSE IF ~deviceRes.ok
        THEN UiTaskResult(UiCaughtRecord(inverter, StatusError(deviceRes, "device"), days),
                          TRUE, FALSE, "", IsAuthStatus(deviceRes.status))
        ELSE IF ~deviceRes.parses
        THEN UiTaskResult(UiCaughtRecord(inverter, "Unexpected token", days),
                          TRUE, FALSE, "", FALSE)
        ELSE IF ~(deviceRes.result_code = "1" /\ deviceRes.hasList)
        THEN UiTaskResult(UiErrorRecord(inverter, "",
                                        IF deviceRes.result_msg # "" THEN deviceRes.result_msg
                                        ELSE "Invalid device response", days),
                          TRUE, FALSE, "", FALSE)
        ELSE IF FirstPsKey(deviceRes.keys) = ""
        THEN UiTaskResult(UiErrorRecord(inverter, "", "No PS Key found", days),
                          TRUE, FALSE, "", FALSE)
        ELSE UiEnergyStep(inverter, FirstPsKey(deviceRes.keys), TRUE, energyRes, range)

\* the failing responses the vendor may give to the UI
UiDeviceFaults ==
    {DeviceResponse(FALSE, 500, TRUE, "0", FALSE, <<>>),
     DeviceResponse(FALSE, 401, TRUE, "0", FALSE, <<>>),
     DeviceResponse(FALSE, 403, TRUE, "0", FALSE, <<>>),
     DeviceResponse(TRUE, 200, FALSE, "0", FALSE, <<>>),
     DeviceResponse(TRUE, 200, TRUE, "0", FALSE, <<>>),
     DeviceResponse(TRUE, 200, TRUE, "1", FALSE, <<>>),
     DeviceResponse(TRUE, 200, TRUE, "1", TRUE, <<"">>)}

UiEnergyFaults ==
    {EnergyResponse(FALSE, 500, TRUE, "0", "none", <<>>),
     EnergyResponse(FALSE, 401, TRUE, "0", "none", <<>>),
     EnergyResponse(FALSE, 403, TRUE, "0", "none", <<>>),
     EnergyResponse(TRUE, 200, FALSE, "0", "none", <<>>),
     EnergyResponse(TRUE, 200, TRUE, "0", "none", <<>>),
     EnergyResponse(TRUE, 200, TRUE, "1", "none", <<>>),
     EnergyResponse(TRUE, 200, TRUE, "1", "nokeys", <<>>),
     EnergyResponse(TRUE, 200, TRUE, "1", "nullentry", <<>>)}

UiFaults ==
    {[device |-> TRUE, res |-> d] : d \in UiDeviceFaults}
    \cup {[device |-> FALSE, res |-> e] : e \in UiEnergyFaults}

\* psKeyCache[inverterId], "" if absent
CachedKey(cache, inverterId) ==
    IF inverterId \in DOMAIN cache THEN cache[inverterId] ELSE ""

\* a device response fails only where a device request is made
UiFaultChoices(lo, hi, cache, left) ==
    {f \in FaultChoices(lo, hi, UiFaults, left) :
        \A k \in DOMAIN f : f[k].device => CachedKey(cache, fetchInverters[k].inverterId) = ""}

\* results of inverters lo..hi in selection order: normal holds those of the
\* inverters that get the normal responses, the others get their faults
UiNormalResults(lo, hi, cache, range) ==
    [k \in 1..(hi - lo + 1) |->
        UiTask(fetchInverters[lo + k - 1],
               CachedKey(cache, fetchInverters[lo + k - 1].inverterId),
               NormalDevice(fetchInverters[lo + k - 1].inverterId), NormalEnergy(range), range)]

UiBatchResults(normal, lo, faults, cache, range) ==
    [k \in DOMAIN normal |->
        IF lo + k - 1 \in DOMAIN faults
        THEN UiTask(fetchInverters[lo + k - 1],
                    CachedKey(cache, fetchInverters[lo + k - 1].inverterId),
                    DeviceResFor(faults, lo + k - 1, fetchInverters[lo + k - 1].inverterId),
                    EnergyResFor(faults, lo + k - 1, range), range)
        ELSE normal[k]]

\* psKeyCache after the tasks lo..hi
PsKeyCacheAfter(cache, lo, results) ==
    LET resolved == {k \in 1..Len(results) : results[k].psKey # ""}
        ids == {fetchInverters[lo + k - 1].inverterId : k \in resolved}
    IN  [id \in DOMAIN cache \cup ids |->
            IF id \in ids
            THEN results[CHOOSE k \in resolved : fetchInverters[lo + k - 1].inverterId = id].psKey
            ELSE cache[id]]

\* err.message.includes('Session expired') || includes('401') || includes('403')
\* in the catch block around the whole run
OuterCatchRelogin(msg) ==
    msg \in {"Session expired. Please login again.",
             "Failed to fetch device data: 401", "Failed to fetch device data: 403"}

\* the effect that loads the roster once login is confirmed: fetchInverterList
\* up to its first await
UiRosterRequest ==
    /\ loginSite = "wpr"
    /\ loginPc = "idle"
    /\ fetchPc = "idle"
    /\ uiLoginSuccess
    /\ ActiveToken # ""
    /\ ~uiInvertersFetched
    /\ rosterPc = "idle"
    /\ rosterPc' = "request"
    /\ uiError' = ""
    /\ UNCHANGED <<uiInverters, uiInvertersFetched, uiRosterToasts, uiRosterRes, fetchPc, fetchInverters,
                   fetchPsKeyCache, fetchI, fetchResults, fetchFaults, fetchSent, fetchRuns>>
    /\ UNCHANGED <<deltaVars, agVars, cacheVars, autoVars, cronVars, loginVars>>
    /\ UNCHANGED syncVars

\* the sheet's answer arrives: the rest of fetchInverterList
UiRosterResponse ==
    /\ rosterPc = "request"
    /\ rosterPc' = "idle"
    /\ \E res \in UiRosterResponses :
          /\ uiRosterRes' = res
          /\ IF UiRosterError(res) # ""
             THEN /\ uiError' = "Failed to load inverter list: " \o UiRosterError(res)
                  /\ uiInverters' = IF Len(uiInverters) = 0 THEN SampleInverters ELSE uiInverters
                  /\ UNCHANGED uiInvertersFetched
                  /\ uiRosterToasts' = IF Len(uiInverters) = 0 THEN <<"error", "info">> ELSE <<"error">>
             ELSE /\ uiError' = ""
                  /\ uiInverters' = ParsedInverters(res)
                  /\ uiInvertersFetched' = TRUE
                  /\ uiRosterToasts' = IF Len(ParsedInverters(res)) = 0
                                       THEN <<"warning", "success">> ELSE <<"success">>
    /\ UNCHANGED <<fetchPc, fetchInverters, fetchPsKeyCache, fetchI,
                   fetchResults, fetchFaults, fetchSent, fetchRuns>>
    /\ UNCHANGED <<deltaVars, agVars, cacheVars, autoVars, cronVars, loginVars>>
    /\ UNCHANGED syncVars

\* a page on which no fetch ever counts as running
LoadingDataNever == FALSE

\* loading.data: set when a performance fetch gets past its entry guards,
\* reset in its finally block; the Refresh Data button is disabled with it
LoadingData == fetchPc \in {"batch", "pause", "finish"}

\* the freshness window of the stored ps_key cache, in hours
PsKeysTtl == 24

\* getCachedData(CACHE_KEYS.PS_KEYS) || {}: a stored cache whose timestamp is
\* older than the freshness window is removed and nothing is returned
GetCachedPsKeys == IF psKeysAge > PsKeysTtl THEN <<>> ELSE uiPsKeys

\* fetchPerformanceData up to its first await; every inverter of the roster is
\* selected.  A date range that does not parse takes the run to the catch
\* block around it.
UiStartFetch ==
    /\ loginSite = "wpr"
    /\ fetchRuns < MaxFetchRuns
    /\ fetchRuns' = fetchRuns + 1
    /\ loginPc = "idle"
    /\ ~loginTimer.pending
    /\ rosterPc = "idle"
    /\ ~LoadingData
    /\ ActiveToken # ""
    /\ Len(uiInverters) > 0
    /\ \E datesParse \in BOOLEAN :
          IF datesParse
          THEN /\ fetchPc' = "batch"
               /\ uiError' = ""
               /\ fetchInverters' = uiInverters
               /\ fetchPsKeyCache' = GetCachedPsKeys
               /\ uiPsKeys' = GetCachedPsKeys
               /\ psResolvedAge' = [id \in DOMAIN GetCachedPsKeys |-> psResolvedAge[id]]
               /\ fetchI' = 0
               /\ fetchResults' = <<>>
               /\ fetchFaults' = <<>>
               /\ fetchSent' = NoFetchRequests
               /\ UNCHANGED <<uiToken, uiStorage, loginTimer>>
          ELSE /\ uiError' = "Failed to fetch data: Invalid date range selected"
               /\ IF OuterCatchRelogin("Invalid date range selected")
                  THEN /\ uiToken' = ClearedToken
                       /\ uiStorage' = RemoveToken(ClearTokenStorage(uiStorage))
                       /\ loginTimer' = [pending |-> TRUE, retryCount |-> 0]
                  ELSE UNCHANGED <<uiToken, uiStorage, loginTimer>>
               /\ UNCHANGED <<fetchPc, fetchInverters, fetchPsKeyCache, fetchI, fetchResults,
                              fetchFaults, fetchSent, uiPsKeys, psResolvedAge>>
    /\ UNCHANGED <<rosterPc, uiInverters, uiInvertersFetched, uiRosterToasts, uiRosterRes>>
    /\ UNCHANGED <<loginSite, uiEnvComplete, loginPc, loginRetryCount, loginRequests, uiLocalToken, uiLoginSuccess, uiLoginError, uiLastEvent>>
    /\ UNCHANGED <<deltaVars, agVars, autoVars, psKeysAge, cronVars>>
    /\ UNCHANGED syncVars

\* fetchPerformanceData with nothing selected: the roster is empty, every
\* inverter of a roster being selected
UiFetchNothingSelected ==
    /\ loginSite = "wpr"
    /\ loginPc = "idle"
    /\ ~loginTimer.pending
    /\ rosterPc = "idle"
    /\ fetchPc = "idle"
    /\ ActiveToken # ""
    /\ Len(uiInverters) = 0
    /\ uiError' = "No inverters selected"
    /\ uiPerformanceData' = <<>>
    /\ UNCHANGED <<rosterPc, uiInverters, uiInvertersFetched, uiRosterToasts, uiRosterRes, fetchPc,
                   fetchInverters, fetchPsKeyCache, fetchI, fetchResults, fetchFaults,
                   fetchSent, fetchRuns>>
    /\ UNCHANGED <<syncPc, syncData, syncPosted, syncResult, uiSearchTerm>>
    /\ UNCHANGED <<deltaVars, agVars, cacheVars, autoVars, cronVars, loginVars>>

\* Promise.all of one batch resolves: the loop body after it.  The tasks of a
\* batch share nothing but psKeyCache, each writing its own key, so the batch
\* is taken as one step.
UiRunBatch ==
    /\ fetchPc = "batch"
    /\ LET lo == fetchI + 1
           hi == Min(fetchI + UiBatchSize, Len(fetchInverters))
           normal == UiNormalResults(lo, hi, fetchPsKeyCache, UiRunRange)
       IN  \E faults \in UiFaultChoices(lo, hi, fetchPsKeyCache,
                                        MaxUiFaults - Cardinality(DOMAIN fetchFaults)) :
              LET results == UiBatchResults(normal, lo, faults, fetchPsKeyCache, UiRunRange)
                  cache == PsKeyCacheAfter(fetchPsKeyCache, lo, results)
                  cleared == \E k \in 1..Len(results) : results[k].sessionCleared
              IN  /\ fetchResults' = fetchResults \o Records(results)
                  /\ uiPerformanceData' = fetchResults \o Records(results)
                  /\ fetchFaults' = [k \in DOMAIN fetchFaults \cup DOMAIN faults |->
                                       IF k \in DOMAIN faults THEN faults[k] ELSE fetchFaults[k]]
                  /\ fetchSent' =
                        [device |-> fetchSent.device
                                    + Cardinality({k \in 1..Len(results) : results[k].deviceRequested}),
                         energy |-> fetchSent.energy + EnergyRequests(results)]
                  /\ fetchPsKeyCache' = cache
                  /\ psResolvedAge' = [id \in DOMAIN cache |->
                                          IF id \in DOMAIN fetchPsKeyCache THEN psResolvedAge[id]
                                          ELSE 0]
                  /\ IF cleared
                     THEN /\ uiToken' = ClearedToken
                          /\ uiStorage' = RemoveToken(ClearTokenStorage(uiStorage))
                          /\ uiLastEvent' = "authFailed"
                     ELSE UNCHANGED <<uiToken, uiStorage, uiLastEvent>>
                  /\ fetchPc' = IF hi < Len(fetchInverters) THEN "pause" ELSE "finish"
    /\ UNCHANGED <<rosterPc, uiInverters, uiInvertersFetched, uiRosterToasts, uiRosterRes, uiError, fetchInverters, fetchI,
                   fetchRuns>>
    /\ UNCHANGED <<loginSite, uiEnvComplete, loginPc, loginTimer, loginRetryCount, loginRequests,
                   uiLocalToken, uiLoginSuccess, uiLoginError, uiPsKeys>>
    /\ UNCHANGED <<syncPc, syncData, syncPosted, syncResult, uiSearchTerm>>
    /\ UNCHANGED <<deltaVars, agVars, autoVars, psKeysAge, cronVars>>

\* after the 500 ms pause between batches
UiAfterPause ==
    /\ fetchPc = "pause"
    /\ fetchI' = fetchI + UiBatchSize
    /\ fetchPc' = "batch"
    /\ UNCHANGED <<rosterPc, uiInverters, uiInvertersFetched, uiRosterToasts, uiRosterRes, uiError,
                   fetchInverters, fetchPsKeyCache, fetchResults, fetchFaults, fetchSent, fetchRuns>>
    /\ UNCHANGED <<deltaVars, agVars, cacheVars, autoVars, cronVars, loginVars>>
    /\ UNCHANGED syncVars

\* the code after the loop: the ps_key cache is stored under the present time,
\* the results are handed
\* to the component and the locals of the run are gone
UiRunEnd ==
    /\ fetchPc = "finish"
    /\ fetchPc' = "idle"
    /\ uiPsKeys' = fetchPsKeyCache
    /\ psKeysAge' = 0
    /\ uiError' = ""
    /\ fetchInverters' = <<>>
    /\ fetchPsKeyCache' = <<>>
    /\ fetchI' = 0
    /\ fetchResults' = <<>>
    /\ fetchFaults' = <<>>
    /\ fetchSent' = NoFetchRequests
    /\ UNCHANGED <<rosterPc, uiInverters, uiInvertersFetched, uiRosterToasts, uiRosterRes, fetchRuns>>
    /\ UNCHANGED <<loginSite, uiEnvComplete, loginPc, loginTimer, loginRetryCount, loginRequests,
                   uiToken, uiLocalToken, uiLoginSuccess, uiLoginError, uiStorage, uiLastEvent>>
    /\ UNCHANGED <<deltaVars, agVars, autoVars, psResolvedAge, cronVars>>
    /\ UNCHANGED syncVars

\* the auto-refresh effect finds the stored issue time expired: handleAutoLogin()
UiAutoRefreshExpired ==
    /\ loginSite = "wpr"
    /\ loginPc = "idle"
    /\ ~loginTimer.pending
    /\ ActiveToken # ""
    /\ Len(uiInverters) > 0
    /\ rosterPc = "idle"
    /\ fetchPc = "idle"
    /\ IsTokenExpired(uiStorage)
    /\ LoginStart(0, 0, uiStorage, "expired")
    /\ UNCHANGED <<loginSite, uiEnvComplete, uiLocalToken, uiPsKeys>>
    /\ UNCHANGED <<deltaVars, agVars, cacheVars, autoVars, cronVars, fetchVars, syncVars>>

\* handleLogout; the Logout button is there whenever the page is logged in and
\* no login is running, a performance fetch in flight or not
UiLogout ==
    /\ loginSite = "wpr"
    /\ loginPc = "idle"
    /\ rosterPc = "idle"
    /\ fetchPc \in {"idle", "batch", "pause"}
    /\ uiLoginSuccess
    /\ uiLocalToken # ""
    /\ uiToken' = ClearedToken
    /\ uiStorage' = EmptyStorage
    /\ uiLocalToken' = ""
    /\ uiLoginSuccess' = FALSE
    /\ uiInverters' = <<>>
    /\ uiPerformanceData' = <<>>
    /\ uiLastEvent' = "logout"
    /\ UNCHANGED <<syncPc, syncData, syncPosted, syncResult, uiSearchTerm>>
    /\ UNCHANGED <<loginSite, uiEnvComplete, loginPc, loginTimer, loginRetryCount, loginRequests,
                   uiLoginError, uiPsKeys>>
    /\ UNCHANGED <<rosterPc, uiInvertersFetched, uiRosterToasts, uiRosterRes, uiError, fetchPc, fetchInverters,
                   fetchPsKeyCache, fetchI, fetchResults, fetchFaults, fetchSent, fetchRuns>>
    /\ UNCHANGED <<deltaVars, agVars, cacheVars, autoVars, cronVars>>

NextUi ==
    \/ UiMount
    \/ LoginAnswered
    \/ LoginTimerFires
    \/ LoginRetryButton
    \/ TimePasses
    \/ UiRosterRequest
    \/ UiRosterResponse
    \/ UiStartFetch
    \/ UiFetchNothingSelected
    \/ UiRunBatch
    \/ UiAfterPause
    \/ UiRunEnd
    \/ UiAutoRefreshExpired
    \/ UiLogout

SpecUi == InitUi /\ [][NextUi]_vars

\* ---- the two collection pipelines -----------------------------------------
\* ps_key caches a performance fetch may start with: none, all of the
\* roster's keys, all but the first inverter's
PsKeyCaches(inverters) ==
    LET ids == {inverters[k].inverterId : k \in 1..Len(inverters)}
    IN  {[id \in S |-> PsKeyFor(id)] : S \in {{}, ids, ids \ {inverters[1].inverterId}}}

\* the report UI of a logged-in user with one of the rosters loaded, a
\* performance fetch just started
InitRunOver(rosters) ==
    /\ DeltaOff
    /\ AllGraphOff
    /\ CronOff
    /\ loginSite = "wpr"
    /\ uiEnvComplete = TRUE
    /\ loginPc = "idle"
    /\ loginTimer = NoTimer
    /\ loginRetryCount = 0
    /\ loginRequests = 1
    /\ uiToken = "T1"
    /\ uiLocalToken = "T1"
    /\ uiLoginSuccess = TRUE
    /\ uiLoginError = ""
    /\ uiStorage = StoredSession("T1")
    /\ uiLastEvent = "loginOk"
    /\ rosterPc = "idle"
    /\ uiInverters \in rosters
    /\ uiInvertersFetched = TRUE
    /\ uiRosterToasts = <<"success">>
    /\ uiRosterRes = NoResponse
    /\ uiError = ""
    /\ fetchPc = "batch"
    /\ fetchInverters = uiInverters
    /\ uiPsKeys \in PsKeyCaches(uiInverters)
    /\ fetchPsKeyCache = uiPsKeys
    /\ fetchI = 0
    /\ fetchResults = <<>>
    /\ fetchFaults = <<>>
    /\ fetchSent = NoFetchRequests
    /\ fetchRuns = 1
    /\ SyncIdle
    /\ CacheFresh
    /\ AutoOff

\* with a roster the sheet returns to the UI
InitRun ==
    InitRunOver({ParsedInverters(res) :
                    res \in {r \in UiRosterResponses :
                               UiRosterError(r) = "" /\ Len(ParsedInverters(r)) > 0}})

InitFleet == InitCron \/ InitRun

\* the scheduled handler, or the batches of one performance fetch of the UI
NextFleet ==
    \/ NextCron
    \/ UiRunBatch
    \/ UiAfterPause
    \/ UiRunEnd

SpecFleet == InitFleet /\ [][NextFleet]_vars

\* ---- results, sheet sync and summary of the report UI ----------------------
\* a check that finds no item in error
HasErrorUnchecked(item) == FALSE

\* item.error is truthy
HasError(item) == item.error # ""

\* the object handleSyncCSVFormat pushes for an item without error
SyncEntry(item) ==
    [serialNo |-> item.serialNo,
     inverterId |-> Trim(item.inverterId),
     beneficiaryName |-> Trim(item.beneficiaryName),
     capacity |-> item.capacity,
     totalKwh |-> item.totalKwh,
     avgDailyKwh |-> item.avgDailyKwh,
     specYield |-> item.specYield,
     daysInRange |-> item.daysInRange,
     lifetimeGeneration |-> IF "lifetimeGeneration" \in DOMAIN item
                            THEN item.lifetimeGeneration ELSE 0]

\* a loop that pushes every item, whatever its error field
RECURSIVE SyncDataOfAll(_)
SyncDataOfAll(data) ==
    IF data = <<>> THEN <<>>
    ELSE <<SyncEntry(Head(data))>> \o SyncDataOfAll(Tail(data))

\* performanceData.forEach(item => { if (!item.error) syncData.push({...}) })
RECURSIVE SyncDataOf(_)
SyncDataOf(data) ==
    IF data = <<>> THEN <<>>
    ELSE (IF HasError(Head(data)) THEN <<>> ELSE <<SyncEntry(Head(data))>>)
         \o SyncDataOf(Tail(data))

\* what a sync call returns ("" for no error field)
SyncReturn(success, error) == [given |-> TRUE, success |-> success, error |-> error]

\* the message thrown on the write endpoint's answer, "" if none
UiSyncError(res) ==
    IF ~res.ok THEN "HTTP error! status"
    ELSE IF ~res.parses THEN "Unexpected token"
    ELSE IF res.success # "true"
         THEN (IF res.error # "" THEN res.error ELSE "Sync failed")
    ELSE ""

\* handleSyncCSVFormat up to its await of the POST (or to its return, when it
\* sends none), called by caller; todayStr is the day an auto-sync callback
\* holds, 0 otherwise
HandleSyncCSVFormat(caller, todayStr) ==
    /\ syncPc = "idle"
    /\ IF Len(uiPerformanceData) = 0
       THEN /\ syncResult' = SyncReturn(FALSE, "")
            /\ syncPosted' = FALSE
            /\ UNCHANGED <<syncPc, syncData>>
       ELSE /\ syncData' = SyncDataOf(uiPerformanceData)
            /\ IF Len(SyncDataOf(uiPerformanceData)) = 0
               THEN /\ syncResult' = SyncReturn(FALSE, "No valid data to sync (all records have errors)")
                    /\ syncPosted' = FALSE
                    /\ UNCHANGED syncPc
               ELSE /\ syncPc' = "request"
                    /\ syncPosted' = TRUE
                    /\ syncResult' = NoResponse
    /\ syncCaller' = IF syncPc' = "request" THEN caller ELSE "none"
    /\ syncTodayStr' = IF syncPc' = "request" THEN todayStr ELSE 0
    /\ syncRes' = NoResponse
    /\ UNCHANGED <<uiPerformanceData, uiSearchTerm>>
    /\ UNCHANGED <<uiSyncStatus, uiSyncInfo, uiLastAutoSyncDate>>

\* the Sync button: handleSyncCSVFormat()
UiSyncStart ==
    /\ loginSite = "wpr"
    /\ HandleSyncCSVFormat("button", 0)
    /\ UNCHANGED <<uiToday, autoSyncTriggeredRef, autoTimer, autoArmed, autoStarted>>
    /\ UNCHANGED <<deltaVars, agVars, cacheVars, cronVars, loginVars, fetchVars>>

\* syncInfo of a sync that succeeded on a day
SyncInfo(day) == [lastSync |-> day]

\* a sync whose bookkeeping is written whatever the endpoint answered
SyncInfoAfterAnyAnswer(res, day, old) == SyncInfo(day)

\* setSyncStatus(syncInfo) / setCachedData(SYNC_INFO, ...) in the success
\* branch; a sync that throws leaves both as they were
SyncInfoAfter(res, day, old) == IF UiSyncError(res) = "" THEN SyncInfo(day) ELSE old

\* setCachedData(LAST_AUTO_SYNC_DATE, todayStr) of the caller that awaited the
\* sync, when result.success: the auto-sync callback stores the day it was
\* armed on, handleManualAutoSync the day of its own clock
LastAutoSyncDateAfter(res, caller, todayStr, day, old) ==
    IF UiSyncError(res) # "" THEN old
    ELSE IF caller = "auto" THEN todayStr
    ELSE IF caller = "manualAuto" THEN day
    ELSE old

\* the write endpoint's answer arrives: the rest of handleSyncCSVFormat and of
\* the caller that awaited it
UiSyncResponse ==
    /\ syncPc = "request"
    /\ syncPc' = "idle"
    /\ \E res \in SubmitResponses :
          /\ syncRes' = res
          /\ syncResult' = IF UiSyncError(res) = ""
                           THEN SyncReturn(TRUE, "")
                           ELSE SyncReturn(FALSE, UiSyncError(res))
          /\ uiSyncStatus' = SyncInfoAfter(res, uiToday, uiSyncStatus)
          /\ uiSyncInfo' = SyncInfoAfter(res, uiToday, uiSyncInfo)
          /\ uiLastAutoSyncDate' = LastAutoSyncDateAfter(res, syncCaller, syncTodayStr, uiToday,
                                                          uiLastAutoSyncDate)
    /\ syncCaller' = "none"
    /\ syncTodayStr' = 0
    /\ UNCHANGED <<uiPerformanceData, syncData, syncPosted, uiSearchTerm>>
    /\ UNCHANGED <<uiToday, autoSyncTriggeredRef, autoTimer, autoArmed, autoStarted>>
    /\ UNCHANGED <<deltaVars, agVars, cacheVars, cronVars, loginVars, fetchVars>>

\* ---- the auto-sync effect ---------------------------------------------------
\* the last day that is followed
MaxDays == 3

\* automatic submissions of one behaviour
MaxAutoSyncs == 3

\* today.getDay(), day 1 being a Monday: 0 = Sunday, 1 = Monday, ...
DayOfWeek(day) == day % 7

\* an auto-sync rule that takes every day
IsAnyDay(day) == TRUE

\* isTodayAutoSyncDay: Monday or Wednesday
IsTodayAutoSyncDay(day) == DayOfWeek(day) = 1 \/ DayOfWeek(day) = 3

\* midnight passes
UiDayPasses ==
    /\ loginSite = "wpr"
    /\ uiToday < MaxDays
    /\ uiToday' = uiToday + 1
    /\ UNCHANGED <<autoSyncTriggeredRef, autoTimer, syncCaller, syncTodayStr, syncRes, uiSyncStatus,
                   uiSyncInfo, uiLastAutoSyncDate, autoArmed, autoStarted>>
    /\ UNCHANGED <<deltaVars, agVars, cacheVars, cronVars, uiVars>>

\* the auto-sync effect and checkAndTriggerAutoSync: on an auto-sync day, with
\* a token and data and no fetch running, unless today is the stored
\* last-auto-sync date or the day the ref holds, the ref is set and the 3 s
\* timer started
UiAutoSyncCheck ==
    /\ loginSite = "wpr"
    /\ uiLoginSuccess
    /\ Len(uiPerformanceData) > 0
    /\ ~LoadingData
    /\ IsTodayAutoSyncDay(uiToday)
    /\ ActiveToken # ""
    /\ uiLastAutoSyncDate # uiToday
    /\ autoSyncTriggeredRef # uiToday
    /\ autoTimer = 0
    /\ Len(autoStarted) < MaxAutoSyncs
    /\ autoSyncTriggeredRef' = uiToday
    /\ autoTimer' = uiToday
    /\ autoArmed' = Append(autoArmed, uiToday)
    /\ UNCHANGED <<uiToday, syncCaller, syncTodayStr, syncRes, uiSyncStatus, uiSyncInfo,
                   uiLastAutoSyncDate, autoStarted>>
    /\ UNCHANGED <<deltaVars, agVars, cacheVars, cronVars, uiVars>>

\* the 3 s timer fires: syncCSVFormatRef.current() up to its await
UiAutoSyncFire ==
    /\ loginSite = "wpr"
    /\ autoTimer # 0
    /\ HandleSyncCSVFormat("auto", autoTimer)
    /\ autoTimer' = 0
    /\ autoStarted' = IF syncPc' = "request" THEN Append(autoStarted, uiToday) ELSE autoStarted
    /\ UNCHANGED <<uiToday, autoSyncTriggeredRef, autoArmed>>
    /\ UNCHANGED <<deltaVars, agVars, cacheVars, cronVars, loginVars, fetchVars>>

\* the Trigger Auto-sync button: handleManualAutoSync up to its await
UiManualAutoSync ==
    /\ loginSite = "wpr"
    /\ Len(uiPerformanceData) > 0
    /\ HandleSyncCSVFormat("manualAuto", 0)
    /\ UNCHANGED <<uiToday, autoSyncTriggeredRef, autoTimer, autoArmed, autoStarted>>
    /\ UNCHANGED <<deltaVars, agVars, cacheVars, cronVars, loginVars, fetchVars>>

\* handleClearAutoSyncHistory
UiClearAutoSyncHistory ==
    /\ loginSite = "wpr"
    /\ uiLastAutoSyncDate' = 0
    /\ autoSyncTriggeredRef' = 0
    /\ autoArmed' = <<>>
    /\ UNCHANGED <<uiToday, autoTimer, syncCaller, syncTodayStr, syncRes, uiSyncStatus, uiSyncInfo,
                   autoStarted>>
    /\ UNCHANGED <<deltaVars, agVars, cacheVars, cronVars, uiVars>>

\* ---- the table and the summary cards
\* what the user types into the search box
SearchTerms == {"", "i1", "zzz"}

\* text.toLowerCase().includes(term) on the texts of the model
IncludesTerm(text, term) ==
    /\ term = "i1"
    /\ text \in {"I" \o ToString(k) : k \in {1} \cup 10..19}

\* the search predicate of filteredData
SearchMatches(item, term) ==
    \/ IncludesTerm(item.beneficiaryName, term)
    \/ IncludesTerm(item.inverterId, term)
    \/ IncludesTerm(item.serialNo, term)

\* data.sort((a, b) => b[sortBy] - a[sortBy]) with the initial sortBy
\* 'specYield' and sortOrder 'desc'; Array.prototype.sort is stable
RECURSIVE SortBySpecYieldDesc(_)
SortBySpecYieldDesc(data) ==
    IF data = <<>> THEN <<>>
    ELSE LET rest == SortBySpecYieldDesc(SubSeq(data, 1, Len(data) - 1))
             x == data[Len(data)]
             before == SelectSeq(rest, LAMBDA y : y.specYield >= x.specYield)
             after == SelectSeq(rest, LAMBDA y : y.specYield < x.specYield)
         IN  before \o <<x>> \o after

\* filteredData
FilteredData(data, term) ==
    LET ok == SelectSeq(data, LAMBDA item : ~HasError(item))
        found == IF term # "" THEN SelectSeq(ok, LAMBDA item : SearchMatches(item, term))
                 ELSE ok
    IN  SortBySpecYieldDesc(found)

\* a summary that counts every record whose totalKwh is not negative
CountsInSummaryNonNegative(item) == item.totalKwh >= 0

\* validData's predicate: item.totalKwh > 0
CountsInSummary(item) == item.totalKwh > 0

RECURSIVE SumOf(_, _)
SumOf(data, field) ==
    IF data = <<>> THEN 0 ELSE Head(data)[field] + SumOf(Tail(data), field)

\* summaryStats === null
NoSummary == [present |-> FALSE]

\* summaryStats (totalKwh and avgDailyKwh in hundredths, avgSpecYield in thousandths)
SummaryStats(filtered) ==
    LET validData == SelectSeq(filtered, CountsInSummary)
        sortedByYield == SortBySpecYieldDesc(validData)
    IN  IF Len(filtered) = 0 \/ Len(validData) = 0 THEN NoSummary
        ELSE [present |-> TRUE,
              totalKwh |-> SumOf(validData, "totalKwh"),
              avgDailyKwh |-> RoundDiv(SumOf(validData, "avgDailyKwh"), Len(validData)),
              avgSpecYield |-> RoundDiv(SumOf(validData, "specYield"), Len(validData)),
              totalCapacity |-> SumOf(validData, "capacity"),
              totalInverters |-> Len(validData),
              bestPerformer |-> sortedByYield[1],
              worstPerformer |-> sortedByYield[Len(sortedByYield)]]

\* the summary the component renders
UiSummaryStats == SummaryStats(FilteredData(uiPerformanceData, uiSearchTerm))

\* setSearchTerm(e.target.value)
UiSetSearchTerm ==
    /\ loginSite = "wpr"
    /\ \E term \in SearchTerms : uiSearchTerm' = term
    /\ UNCHANGED <<uiPerformanceData, syncPc, syncData, syncPosted, syncResult>>
    /\ UNCHANGED <<deltaVars, agVars, cacheVars, autoVars, cronVars, loginVars, fetchVars>>

\* inverters of the largest of the short rosters of the fetches followed up to
\* their sync calls and searches
MaxReportRoster == 3

\* a short roster: its fetch is a single batch
InitReport == InitRunOver({ParsedInverters(RosterResponse(TRUE, "json", "table", RosterOf(n))) :
                              n \in 1..MaxReportRoster})

\* the scheduled handler, or one performance fetch of the report UI with the
\* sync calls made on its results
NextReport ==
    \/ NextCron
    \/ UiRunBatch
    \/ UiRunEnd
    \/ UiSyncStart
    \/ UiSyncResponse

SpecReport == (InitCron \/ InitReport) /\ [][NextReport]_vars

\* one performance fetch of the report UI and the searches made on its results
NextSummary ==
    \/ UiRunBatch
    \/ UiRunEnd
    \/ UiSetSearchTerm

SpecSummary == InitReport /\ [][NextSummary]_vars

\* ---- loading the roster
\* the report UI of a logged-in user before the roster is loaded, one
\* performance fetch left to make
InitRoster ==
    /\ DeltaOff
    /\ AllGraphOff
    /\ CronOff
    /\ loginSite = "wpr"
    /\ uiEnvComplete = TRUE
    /\ loginPc = "idle"
    /\ loginTimer = NoTimer
    /\ loginRetryCount = 0
    /\ loginRequests = 1
    /\ uiToken = "T1"
    /\ uiLocalToken = "T1"
    /\ uiLoginSuccess = TRUE
    /\ uiLoginError = ""
    /\ uiStorage = StoredSession("T1")
    /\ uiPsKeys = <<>>
    /\ uiLastEvent = "loginOk"
    /\ rosterPc = "idle"
    /\ uiInverters = <<>>
    /\ uiInvertersFetched = FALSE
    /\ uiRosterToasts = <<>>
    /\ uiRosterRes = NoResponse
    /\ uiError = ""
    /\ fetchPc = "idle"
    /\ fetchInverters = <<>>
    /\ fetchPsKeyCache = <<>>
    /\ fetchI = 0
    /\ fetchResults = <<>>
    /\ fetchFaults = <<>>
    /\ fetchSent = NoFetchRequests
    /\ fetchRuns = MaxFetchRuns - 1
    /\ SyncIdle
    /\ CacheFresh
    /\ AutoOff

\* the scheduled handler, or the report UI loading its roster and fetching
\* with it
NextRoster ==
    \/ NextCron
    \/ UiRosterRequest
    \/ UiRosterResponse
    \/ UiStartFetch
    \/ UiFetchNothingSelected
    \/ UiRunBatch
    \/ UiAfterPause
    \/ UiRunEnd

SpecRoster == (InitCron \/ InitRoster) /\ [][NextRoster]_vars

\* ---- logging out and in again ----------------------------------------------
\* a click on Logout is handled after the effects of the last render have run:
\* the roster effect is not waiting to start its fetch
UiLogoutSettled ==
    /\ uiInvertersFetched \/ rosterPc # "idle"
    /\ UiLogout

\* the report UI of a logged-in user: the roster, logout and the login that
\* follows it
NextLogout ==
    \/ UiRosterRequest
    \/ UiRosterResponse
    \/ UiLogoutSettled
    \/ LoginRetryButton
    \/ LoginAnswered
    \/ LoginTimerFires

\* effects run once their conditions hold, requests are answered and timers
\* fire; what the user does is left open
FairLogout ==
    /\ WF_vars(UiRosterRequest)
    /\ WF_vars(UiRosterResponse)
    /\ WF_vars(LoginAnswered)
    /\ WF_vars(LoginTimerFires)

SpecLogout == InitRoster /\ [][NextLogout]_vars /\ FairLogout

\* ---- the stored ps_key cache over days --------------------------------------
\* hours that pass between two visits to the page
CacheHoursStep == 16

\* the oldest timestamp of a stored cache that is followed
MaxCacheAge == 32

\* performance fetches of one behaviour
CacheRuns == 3

\* hours pass while the page is idle and shows the results of a fetch (with
\* nothing to show the auto-refresh effect is at work): Date.now() moves away
\* from the timestamp stored with the cache and from the issue time of the
\* session
CacheTimePasses ==
    /\ loginSite = "wpr"
    /\ Len(uiPerformanceData) > 0
    /\ loginPc = "idle"
    /\ ~loginTimer.pending
    /\ rosterPc = "idle"
    /\ fetchPc = "idle"
    /\ psKeysAge + CacheHoursStep <= MaxCacheAge
    /\ psKeysAge' = psKeysAge + CacheHoursStep
    /\ psResolvedAge' = [id \in DOMAIN psResolvedAge |-> psResolvedAge[id] + CacheHoursStep]
    /\ uiStorage' = IF uiStorage.hasStamp
                    THEN [uiStorage EXCEPT !.age = ExpiredAge(loginSite)]
                    ELSE uiStorage
    /\ UNCHANGED <<loginSite, uiEnvComplete, loginPc, loginTimer, loginRetryCount, loginRequests,
                   uiToken, uiLocalToken, uiLoginSuccess, uiLoginError, uiPsKeys,
                   uiLastEvent>>
    /\ UNCHANGED <<deltaVars, agVars, autoVars, cronVars, fetchVars, syncVars>>

\* the report UI of a logged-in user, a roster of one of the sizes loaded,
\* nothing fetched, no ps_key stored yet and so many fetches to come
InitIdle(sizes, runs) ==
    /\ DeltaOff
    /\ AllGraphOff
    /\ CronOff
    /\ loginSite = "wpr"
    /\ uiEnvComplete = TRUE
    /\ loginPc = "idle"
    /\ loginTimer = NoTimer
    /\ loginRetryCount = 0
    /\ loginRequests = 1
    /\ uiToken = "T1"
    /\ uiLocalToken = "T1"
    /\ uiLoginSuccess = TRUE
    /\ uiLoginError = ""
    /\ uiStorage = StoredSession("T1")
    /\ uiPsKeys = <<>>
    /\ uiLastEvent = "loginOk"
    /\ rosterPc = "idle"
    /\ uiInverters \in {ParsedInverters(RosterResponse(TRUE, "json", "table", RosterOf(n))) :
                          n \in sizes}
    /\ uiInvertersFetched = TRUE
    /\ uiRosterToasts = <<"success">>
    /\ uiRosterRes = NoResponse
    /\ uiError = ""
    /\ fetchPc = "idle"
    /\ fetchInverters = <<>>
    /\ fetchPsKeyCache = <<>>
    /\ fetchI = 0
    /\ fetchResults = <<>>
    /\ fetchFaults = <<>>
    /\ fetchSent = NoFetchRequests
    /\ fetchRuns = MaxFetchRuns - runs
    /\ SyncIdle
    /\ CacheFresh
    /\ AutoOff

InitCache == InitIdle(1..MaxReportRoster, CacheRuns)

\* performance fetches of the report UI with hours passing between them
NextCache ==
    \/ UiStartFetch
    \/ UiRunBatch
    \/ UiRunEnd
    \/ CacheTimePasses

SpecCache == InitCache /\ [][NextCache]_vars

\* ---- refreshing while a fetch is running -----------------------------------
\* the report UI of a logged-in user fetching again and again, and logging out
NextRefresh ==
    \/ UiStartFetch
    \/ UiRunBatch
    \/ UiRunEnd
    \/ UiLogout

\* performance fetches of one behaviour
RefreshRuns == 3

InitRefresh == InitIdle({1}, RefreshRuns)

SpecRefresh == InitRefresh /\ [][NextRefresh]_vars

\* ---- the auto-sync of the report UI ------------------------------------------
\* the report UI of a logged-in user on a Monday, one inverter on the roster,
\* nothing fetched yet
InitAuto == InitIdle({1}, 1)

\* fetching, the three ways to sync, and the days passing
NextAuto ==
    \/ UiStartFetch
    \/ UiRunBatch
    \/ UiRunEnd
    \/ UiSyncStart
    \/ UiSyncResponse
    \/ UiAutoSyncCheck
    \/ UiAutoSyncFire
    \/ UiManualAutoSync
    \/ UiClearAutoSyncHistory
    \/ UiDayPasses

SpecAuto == InitAuto /\ [][NextAuto]_vars

\* ---- the multi-year page: AllGraph.jsx ------------------------------------
\* sn_list and ps_key_list are sent in slices of 10
AllGraphBatchSize == 10
\* tokenAge > 50 * 60 * 1000, in minutes
AllGraphSyncTtl == 50
\* longest roster the sheet returns to the page
MaxAllGraphRoster == 11

\* one row of rows.forEach((row, index) => ...) of fetchInverterDataFromSheet
AllGraphEntry(row, index) ==
    [serialNo |-> IF Trim(row.c0) = "" THEN ToString(index) ELSE Trim(row.c0),
     inverterId |-> Trim(row.c1),
     beneficiaryName |-> Trim(row.c2)]

\* if (inverterId)
AllGraphRowAccepted(row) == Trim(row.c1) # ""

RECURSIVE AllGraphInvertersFrom(_, _)
AllGraphInvertersFrom(rows, pos) ==
    IF pos > Len(rows) THEN <<>>
    ELSE IF pos = 1 \/ ~AllGraphRowAccepted(rows[pos])
         THEN AllGraphInvertersFrom(rows, pos + 1)
         ELSE <<AllGraphEntry(rows[pos], pos - 1)>> \o AllGraphInvertersFrom(rows, pos + 1)

\* processedData
AllGraphParsed(res) == AllGraphInvertersFrom(NormalizedRows(res), 1)

\* the message fetchInverterDataFromSheet throws on the sheet's answer
AllGraphSheetError(res) ==
    IF ~res.ok THEN "Failed to fetch sheet: 500"
    ELSE IF res.text \in {"json", "padded"} THEN ""
    ELSE IF res.text = "nobraces" THEN "Invalid JSON response from server"
    ELSE "Unexpected token"

AllGraphSheetResponses ==
    {RosterResponse(FALSE, "json", "table", <<>>),
     RosterResponse(TRUE, "nobraces", "table", <<>>),
     RosterResponse(TRUE, "json", "table", <<HeaderRow>>),
     RosterResponse(TRUE, "json", "values", MixedRoster),
     RosterResponse(TRUE, "json", "table", RosterOf(2)),
     RosterResponse(TRUE, "json", "table", RosterOf(MaxAllGraphRoster))}

\* the years of the model and the ranges the user selects
Years == 1..3
YearRanges == {[startYear |-> 1, endYear |-> 3], [startYear |-> 2, endYear |-> 3],
               [startYear |-> 2, endYear |-> 2]}

\* a yearly reading: time_stamp is the year, raw the text under the value key
YearItem(year, raw) == [year |-> year, hasValueKey |-> TRUE, raw |-> raw]

\* what the vendor holds for one device: a counter that rises, one that was
\* reset, one with a year missing, one whose readings come out of order, one
\* with a reading that has no value
CloudSeries ==
    {<<YearItem(1, "3"), YearItem(2, "1234"), YearItem(3, "5000")>>,
     <<YearItem(1, "5000"), YearItem(2, "1234"), YearItem(3, "5000")>>,
     <<YearItem(1, "1234"), YearItem(3, "5000")>>,
     <<YearItem(3, "5000"), YearItem(1, "3"), YearItem(2, "1234")>>,
     <<YearItem(1, "1234"), [year |-> 2, hasValueKey |-> FALSE, raw |-> ""], YearItem(3, "5000")>>}

RisingSeries == <<YearItem(1, "3"), YearItem(2, "1234"), YearItem(3, "5000")>>

\* the vendor's data for the devices of a roster: any series for the first
\* inverter, the rising counter for the others
Clouds(ids) ==
    {[k \in {PsKeyFor(ids[n]) : n \in 1..Len(ids)} |->
         IF k = PsKeyFor(ids[1]) THEN a ELSE RisingSeries] : a \in CloudSeries}

\* the readings of a series within the requested years
RECURSIVE WithinYears(_, _, _)
WithinYears(series, startTime, endTime) ==
    IF series = <<>> THEN <<>>
    ELSE IF Head(series).year >= startTime /\ Head(series).year <= endTime
         THEN <<Head(series)>> \o WithinYears(Tail(series), startTime, endTime)
         ELSE WithinYears(Tail(series), startTime, endTime)

\* [...dataArray].sort((a, b) => parseInt(a.time_stamp) - parseInt(b.time_stamp)),
\* and result.sort((a, b) => a.yearNum - b.yearNum): stable
RECURSIVE InsertByYear(_, _)
InsertByYear(s, x) ==
    IF s = <<>> THEN <<x>>
    ELSE IF Head(s).year <= x.year
         THEN <<Head(s)>> \o InsertByYear(Tail(s), x)
         ELSE <<x>> \o s

RECURSIVE SortByYear(_)
SortByYear(arr) ==
    IF arr = <<>> THEN <<>>
    ELSE InsertByYear(SortByYear(SubSeq(arr, 1, Len(arr) - 1)), arr[Len(arr)])

\* the forEach of formatYearlyData from position idx on; kWh in thousandths
RECURSIVE WalkYears(_, _, _, _, _)
WalkYears(sorted, idx, previousCumulativeKwh, serialNumber, range) ==
    IF idx > Len(sorted) THEN <<>>
    ELSE IF ~sorted[idx].hasValueKey
         THEN WalkYears(sorted, idx + 1, previousCumulativeKwh, serialNumber, range)
         ELSE LET cumulativeKwh == CurrentKwh(sorted[idx])
                  point == [year |-> sorted[idx].year,
                            yearlyKwh |-> Max0(cumulativeKwh - previousCumulativeKwh),
                            cumulativeKwh |-> cumulativeKwh,
                            serialNumber |-> serialNumber]
                  rest == WalkYears(sorted, idx + 1, cumulativeKwh, serialNumber, range)
              IN  IF point.year >= range.startYear /\ point.year <= range.endYear
                  THEN <<point>> \o rest
                  ELSE rest

\* formatYearlyData(apiData, serialNumber, range), yearArray being dataArray, the series
\* under the first data point of the device
FormatYearlyData(yearArray, serialNumber, range) ==
    IF yearArray = <<>> THEN <<>>
    ELSE SortByYear(WalkYears(SortByYear(yearArray), 1, 0, serialNumber, range))

\* deviceData.formatted.find(item => item.year === year): found, and the item
HasYear(formatted, year) == \E k \in 1..Len(formatted) : formatted[k].year = year
FindYear(formatted, year) ==
    formatted[CHOOSE k \in 1..Len(formatted) :
                 /\ formatted[k].year = year
                 /\ \A j \in 1..(k - 1) : formatted[j].year # year]

\* the sum, over the devices of serials, of the field of the year's item
RECURSIVE SumYear(_, _, _, _)
SumYear(yearlyDataObj, serials, year, field) ==
    IF serials = {} THEN 0
    ELSE LET sn == CHOOSE x \in serials : TRUE
             formatted == yearlyDataObj[sn].formatted
         IN  (IF HasYear(formatted, year) THEN FindYear(formatted, year)[field] ELSE 0)
             + SumYear(yearlyDataObj, serials \ {sn}, year, field)

\* Array.from(allYears).sort()
RECURSIVE SortedYears(_)
SortedYears(S) ==
    IF S = {} THEN <<>>
    ELSE LET first == CHOOSE y \in S : \A z \in S : y <= z
         IN  <<first>> \o SortedYears(S \ {first})

\* calculateAggregatedData(yearlyDataObj); the totals in hundredths of a kWh
CalculateAggregatedData(yearlyDataObj) ==
    LET serials == DOMAIN yearlyDataObj
        allYears == UNION {{yearlyDataObj[sn].formatted[k].year :
                               k \in 1..Len(yearlyDataObj[sn].formatted)} : sn \in serials}
        yearsArray == SortedYears(allYears)
    IN  [n \in 1..Len(yearsArray) |->
            [year |-> yearsArray[n],
             totalYearlyKwh |-> RoundDiv(SumYear(yearlyDataObj, serials, yearsArray[n], "yearlyKwh"), 10),
             totalCumulativeKwh |->
                 RoundDiv(SumYear(yearlyDataObj, serials, yearsArray[n], "cumulativeKwh"), 10)]]

\* the requests of the page
DeviceRequest(snList) == [kind |-> "device", list |-> snList, startTime |-> 0, endTime |-> 0]
HistoryRequest(psKeyList, range) ==
    [kind |-> "history", list |-> psKeyList, startTime |-> range.startYear, endTime |-> range.endYear]

\* as if a batch were the rest of the list
SliceToEnd(list, i, size) == SubSeq(list, i + 1, Len(list))

\* slice(i, i + 10)
Slice(list, i, size) == SubSeq(list, i + 1, Min(i + size, Len(list)))

\* the device points the vendor answers a batch of serial numbers with
AllGraphDeviceAnswers == {"all", "badcode", "nolist", "allbutfirst"}
\* what the vendor answers a batch of ps_keys with
AllGraphHistoryAnswers == {"all", "badcode", "nodata", "allbutfirst"}

\* the entries deviceList.forEach pushes for a batch
DevicesFound(batchSnList, answer, inverterData) ==
    LET found == IF answer = "all" THEN batchSnList
                 ELSE IF answer = "allbutfirst" THEN Tail(batchSnList)
                 ELSE <<>>
        NameOf(sn) ==
            LET match == {k \in 1..Len(inverterData) : inverterData[k].inverterId = sn}
                first == CHOOSE k \in match : \A j \in match : k <= j
            IN  IF match # {} /\ inverterData[first].beneficiaryName # ""
                THEN inverterData[first].beneficiaryName
                ELSE "DEVICE"
    IN  [k \in 1..Len(found) |->
            [serialNumber |-> found[k], psKey |-> PsKeyFor(found[k]), deviceName |-> NameOf(found[k])]]

\* newYearlyData after the forEach over a batch of ps_keys
RECURSIVE StoreYearly(_, _, _, _, _, _)
StoreYearly(newYearlyData, batch, k, answered, fetchedDevices, range) ==
    IF k > Len(batch) THEN newYearlyData
    ELSE LET psKey == batch[k]
             known == {n \in 1..Len(fetchedDevices) : fetchedDevices[n].psKey = psKey}
             device == fetchedDevices[CHOOSE n \in known : \A j \in known : n <= j]
             entry == [deviceName |-> device.deviceName,
                       formatted |-> FormatYearlyData(answered[psKey], device.serialNumber, range)]
             stored == IF known # {} /\ psKey \in DOMAIN answered
                       THEN [sn \in DOMAIN newYearlyData \cup {device.serialNumber} |->
                                IF sn = device.serialNumber THEN entry ELSE newYearlyData[sn]]
                       ELSE newYearlyData
         IN  StoreYearly(stored, batch, k + 1, answered, fetchedDevices, range)

\* result_data of the history answer to a batch: ps_key -> readings within
\* the requested years
HistoryData(batch, answer, request) ==
    LET keys == IF answer = "all" THEN {batch[k] : k \in 1..Len(batch)}
                ELSE IF answer = "allbutfirst" THEN {batch[k] : k \in 2..Len(batch)}
                ELSE {}
    IN  [psKey \in keys |-> WithinYears(agCloud[psKey], request.startTime, request.endTime)]

\* the page with the sheet request of its mount in flight
InitAllGraph ==
    /\ DeltaOff
    /\ CronOff
    /\ loginSite = "allgraph"
    /\ uiEnvComplete = TRUE
    /\ loginPc = "idle"
    /\ loginTimer = NoTimer
    /\ loginRetryCount = 0
    /\ loginRequests = 0
    /\ uiStorage \in {EmptyStorage} \cup {[token |-> "T0", hasStamp |-> TRUE, age |-> a] :
                                             a \in {0, AllGraphSyncTtl + 1}}
    /\ uiToken = uiStorage.token
    /\ uiLocalToken = ""
    /\ uiLoginSuccess = (uiToken # "")
    /\ uiLoginError = ""
    /\ uiPsKeys = <<>>
    /\ uiLastEvent = "none"
    /\ rosterPc = "idle"
    /\ uiInverters = <<>>
    /\ uiInvertersFetched = FALSE
    /\ uiRosterToasts = <<>>
    /\ uiRosterRes = NoResponse
    /\ uiError = ""
    /\ fetchPc = "off"
    /\ fetchInverters = <<>>
    /\ fetchPsKeyCache = <<>>
    /\ fetchI = 0
    /\ fetchResults = <<>>
    /\ fetchFaults = <<>>
    /\ fetchSent = NoFetchRequests
    /\ fetchRuns = 0
    /\ SyncIdle
    /\ CacheFresh
    /\ AutoOff
    /\ agPc = "sheet"
    /\ agInverterData = <<>>
    /\ agError = ""
    /\ agSheetRes = NoResponse
    /\ agSolarError = ""
    /\ agYearRange \in YearRanges
    /\ agCloud = <<>>
    /\ agI = 0
    /\ agFetchedDevices = <<>>
    /\ agDevices = <<>>
    /\ agNewYearlyData = <<>>
    /\ agYearlyData = <<>>
    /\ agAggregatedData = <<>>
    /\ agSent = <<>>

\* the sheet's answer arrives: the rest of fetchInverterDataFromSheet.  The
\* vendor's data for the devices of the roster is fixed here.
AllGraphSheetResponse ==
    /\ agPc = "sheet"
    /\ agPc' = "idle"
    /\ \E res \in AllGraphSheetResponses :
          /\ agSheetRes' = res
          /\ IF AllGraphSheetError(res) # ""
             THEN /\ agError' = AllGraphSheetError(res)
                  /\ UNCHANGED <<agInverterData, agCloud>>
             ELSE /\ agError' = ""
                  /\ agInverterData' = AllGraphParsed(res)
                  /\ IF AllGraphParsed(res) = <<>>
                     THEN agCloud' = <<>>
                     ELSE agCloud' \in Clouds([k \in 1..Len(AllGraphParsed(res)) |->
                                                  AllGraphParsed(res)[k].inverterId])
    /\ UNCHANGED <<agSolarError, agYearRange, agI, agFetchedDevices, agDevices, agNewYearlyData,
                   agYearlyData, agAggregatedData, agSent>>
    /\ UNCHANGED <<deltaVars, cronVars, uiVars, cacheVars, autoVars>>

\* snList
SnList == [k \in 1..Len(agInverterData) |-> agInverterData[k].inverterId]

\* the device loop starts: its first request
StartDeviceLoop ==
    /\ agPc' = "devices"
    /\ agI' = 0
    /\ agFetchedDevices' = <<>>
    /\ agSent' = <<DeviceRequest(Slice(SnList, 0, AllGraphBatchSize))>>

\* handleSyncAllSolar up to its first await
AllGraphSyncStart ==
    /\ agPc = "idle"
    /\ IF Len(agInverterData) = 0
       THEN /\ agSolarError' = "No inverters found from sheet. Please fetch sheet data first."
            /\ UNCHANGED <<agPc, agI, agFetchedDevices, agSent>>
       ELSE /\ agSolarError' = ""
            /\ IF uiToken = "" \/ ~uiStorage.hasStamp \/ uiStorage.age > AllGraphSyncTtl
               THEN /\ agPc' = "login"
                    /\ UNCHANGED <<agI, agFetchedDevices, agSent>>
               ELSE StartDeviceLoop
    /\ UNCHANGED <<agInverterData, agError, agSheetRes, agYearRange, agCloud, agDevices, agNewYearlyData,
                   agYearlyData, agAggregatedData>>
    /\ UNCHANGED <<deltaVars, cronVars, uiVars, cacheVars, autoVars>>

\* the login answer arrives
AllGraphSyncLogin ==
    /\ agPc = "login"
    /\ \E ok \in BOOLEAN :
          IF ok
          THEN /\ uiToken' = "T1"
               /\ uiStorage' = StoredSession("T1")
               /\ StartDeviceLoop
               /\ UNCHANGED agSolarError
          ELSE /\ agSolarError' = "login failed"
               /\ agPc' = "idle"
               /\ UNCHANGED <<uiToken, uiStorage, agI, agFetchedDevices, agSent>>
    /\ UNCHANGED <<agInverterData, agError, agSheetRes, agYearRange, agCloud, agDevices, agNewYearlyData,
                   agYearlyData, agAggregatedData>>
    /\ UNCHANGED <<loginSite, uiEnvComplete, loginPc, loginTimer, loginRetryCount, loginRequests,
                   uiLocalToken, uiLoginSuccess, uiLoginError, uiPsKeys, uiLastEvent>>
    /\ UNCHANGED <<deltaVars, cronVars, fetchVars, syncVars, cacheVars, autoVars>>

\* psKeyList
PsKeyList(fetchedDevices) == [k \in 1..Len(fetchedDevices) |-> fetchedDevices[k].psKey]

\* the answer to the device request of the batch at agI arrives: the rest of
\* the loop body, then the next request
AllGraphDeviceResponse ==
    /\ agPc = "devices"
    /\ \E answer \in AllGraphDeviceAnswers :
          LET batchSnList == Slice(SnList, agI, AllGraphBatchSize)
              fetched == agFetchedDevices \o DevicesFound(batchSnList, answer, agInverterData)
          IN  IF answer = "badcode"
              THEN /\ agSolarError' = "device list failed"
                   /\ agPc' = "idle"
                   /\ UNCHANGED <<agI, agFetchedDevices, agDevices, agNewYearlyData, agSent>>
              ELSE IF agI + AllGraphBatchSize < Len(SnList)
              THEN /\ agI' = agI + AllGraphBatchSize
                   /\ agFetchedDevices' = fetched
                   /\ agSent' = Append(agSent, DeviceRequest(Slice(SnList, agI + AllGraphBatchSize,
                                                                   AllGraphBatchSize)))
                   /\ UNCHANGED <<agPc, agSolarError, agDevices, agNewYearlyData>>
              ELSE /\ agFetchedDevices' = fetched
                   /\ agDevices' = fetched
                   /\ IF Len(fetched) = 0
                      THEN /\ agSolarError' = "Could not find cloud match for these inverters."
                           /\ agPc' = "idle"
                           /\ UNCHANGED <<agI, agNewYearlyData, agSent>>
                      ELSE /\ agPc' = "yearly"
                           /\ agI' = 0
                           /\ agNewYearlyData' = <<>>
                           /\ agSent' = Append(agSent,
                                               HistoryRequest(Slice(PsKeyList(fetched), 0, AllGraphBatchSize),
                                                              agYearRange))
                           /\ UNCHANGED agSolarError
    /\ UNCHANGED <<agInverterData, agError, agSheetRes, agYearRange, agCloud, agYearlyData, agAggregatedData>>
    /\ UNCHANGED <<deltaVars, cronVars, uiVars, cacheVars, autoVars>>

\* the answer to the history request of the batch at agI arrives: the rest of
\* the loop body, then the next request or the end of the sync
AllGraphHistoryResponse ==
    /\ agPc = "yearly"
    /\ \E answer \in AllGraphHistoryAnswers :
          LET psKeyList == PsKeyList(agFetchedDevices)
              batchPsKeyList == Slice(psKeyList, agI, AllGraphBatchSize)
              stored == StoreYearly(agNewYearlyData, batchPsKeyList, 1,
                                    HistoryData(batchPsKeyList, answer, agSent[Len(agSent)]),
                                    agFetchedDevices, agYearRange)
          IN  IF answer = "badcode"
              THEN /\ agSolarError' = "history failed"
                   /\ agPc' = "idle"
                   /\ UNCHANGED <<agI, agNewYearlyData, agYearlyData, agAggregatedData, agSent>>
              ELSE IF agI + AllGraphBatchSize < Len(psKeyList)
              THEN /\ agI' = agI + AllGraphBatchSize
                   /\ agNewYearlyData' = stored
                   /\ agSent' = Append(agSent,
                                       HistoryRequest(Slice(psKeyList, agI + AllGraphBatchSize,
                                                            AllGraphBatchSize), agYearRange))
                   /\ UNCHANGED <<agPc, agSolarError, agYearlyData, agAggregatedData>>
              ELSE /\ agNewYearlyData' = stored
                   /\ agYearlyData' = stored
                   /\ agAggregatedData' = IF DOMAIN stored # {}
                                          THEN CalculateAggregatedData(stored)
                                          ELSE agAggregatedData
                   /\ agPc' = "idle"
                   /\ UNCHANGED <<agI, agSolarError, agSent>>
    /\ UNCHANGED <<agInverterData, agError, agSheetRes, agCloud, agFetchedDevices, agDevices>>
    /\ UNCHANGED agYearRange
    /\ UNCHANGED <<deltaVars, cronVars, uiVars, cacheVars, autoVars>>

NextAllGraph ==
    \/ AllGraphSheetResponse
    \/ AllGraphSyncStart
    \/ AllGraphSyncLogin
    \/ AllGraphDeviceResponse
    \/ AllGraphHistoryResponse

SpecAllGraph == InitAllGraph /\ [][NextAllGraph]_vars

\* ---- the batch loops of the three call sites
\* the page syncing its first range of years without a stored session
InitAllGraphSync ==
    /\ InitAllGraph
    /\ uiStorage = EmptyStorage
    /\ agYearRange = [startYear |-> 1, endYear |-> 3]

NextBatches ==
    \/ NextFleet
    \/ NextAllGraph

SpecBatches == (InitFleet \/ InitAllGraphSync) /\ [][NextBatches]_vars

\* ------------------------------------------------------ claims C1 .. C3
AllCarryValue(arr) == \A i \in 1..Len(arr) : arr[i].hasValueKey

Ascending(sorted) ==
    \A i \in 1..Len(sorted) : \A j \in i..Len(sorted) :
        StampLeq(sorted[i].time_stamp, sorted[j].time_stamp)

\* C1: for a series [c0 .. cn] whose points all carry a value field, taken in
\* ascending time_stamp order, the delta engine emits exactly n points (none
\* for the first, which only seeds the baseline); the i-th emitted point has
\* dailyKwh = max(0, c[i+1] - c[i]), cumulativeKwh = c[i+1] and the stamp of
\* point i+1, so the baseline is the previous reading even after a decrease.
C1_DeltaSeries ==
    (taskPc = "done" /\ AllCarryValue(dataArray)) =>
        /\ Len(sortedData) = Len(dataArray)
        /\ Ascending(sortedData)
        /\ Len(dailyData) = Max0(Len(sortedData) - 1)
        /\ \A i \in 1..Len(dailyData) :
              /\ dailyData[i].dailyKwh
                   = Max0(CurrentKwh(sortedData[i + 1]) - CurrentKwh(sortedData[i]))
              /\ dailyData[i].dailyKwh >= 0
              /\ dailyData[i].cumulativeKwh = CurrentKwh(sortedData[i + 1])
              /\ dailyData[i].date = sortedData[i + 1].time_stamp

\* a three-point series that decreases and then increases again: the clamped
\* delta is followed by a delta measured from the lower reading
C1_Witness ==
    /\ taskPc = "done"
    /\ AllCarryValue(dataArray)
    /\ Len(sortedData) = 3
    /\ dataArray # sortedData
    /\ CurrentKwh(sortedData[2]) < CurrentKwh(sortedData[1])
    /\ dailyData[1].dailyKwh = 0
    /\ dailyData[2].dailyKwh = CurrentKwh(sortedData[3]) - CurrentKwh(sortedData[2])
    /\ dailyData[2].dailyKwh > 0

WindowIndices ==
    {i \in 1..Len(dailyData) :
        /\ dateRange.startDate <= dailyData[i].date.date
        /\ dailyData[i].date.date <= dateRange.endDate}

RECURSIVE SumDailyKwhOver(_)
SumDailyKwhOver(I) ==
    IF I = {} THEN 0
    ELSE LET i == CHOOSE x \in I : TRUE
         IN  dailyData[i].dailyKwh + SumDailyKwhOver(I \ {i})

\* C2: the reported totalKwh is, rounded to 2 decimals, the sum of dailyKwh
\* over exactly the delta points whose 8-character date prefix lies in the
\* inclusive caller window; no other point contributes.
C2_TotalIsWindowSum ==
    taskPc = "done" =>
        taskRecord.totalKwh = RoundDiv(SumDailyKwhOver(WindowIndices), 10)

\* a point inside and a point outside the window, both with energy, and a sum
\* that the rounding changes
C2_Witness ==
    /\ taskPc = "done"
    /\ \E i \in WindowIndices : dailyData[i].dailyKwh > 0
    /\ \E i \in (1..Len(dailyData)) \ WindowIndices : dailyData[i].dailyKwh > 0
    /\ \E i \in WindowIndices : dailyData[i].date.rest = 1
    /\ taskRecord.totalKwh * 10 # SumDailyKwhOver(WindowIndices)

\* |q - num/den| <= 1/2 : q is a nearest integer to num/den (den > 0)
Nearest(q, num, den) ==
    /\ 2 * (q * den - num) <= den
    /\ 2 * (num - q * den) <= den

\* C3: in every successful record specYield is avgDailyKwh / capacity with
\* avgDailyKwh = totalKwh / daysInRange (reported to 3 and 2 decimals, both
\* from the unrounded sum), and specYield is exactly 0 when capacity <= 0.
C3_SpecificYield ==
    taskPc = "done" =>
        LET total == SumDailyKwhOver(WindowIndices)
            days == taskRecord.daysInRange
            capacity == taskInverter.capacity
        IN  /\ days > 0
            /\ Nearest(taskRecord.avgDailyKwh, total, 10 * days)
            /\ capacity <= 0 => taskRecord.specYield = 0
            /\ capacity > 0 => Nearest(taskRecord.specYield, total, days * capacity)

\* an inverter of negative capacity that produced energy in the window
C3_Witness ==
    /\ taskPc = "done"
    /\ taskInverter.capacity <= 0
    /\ taskRecord.totalKwh > 0
    /\ taskRecord.avgDailyKwh > 0
    /\ taskRecord.specYield = 0

\* ------------------------------------------------------ claims C4 .. C5
CronAnswered401 ==
    /\ Len(cronResponses) = 1
    /\ cronResponses[1].status = 401
    /\ cronSent = NoRequests

\* C4 as stated: an invocation without the trusted user-agent whose
\* Authorization header is not 'Bearer <secret>' is answered 401 and nothing
\* is requested from the vendor or the sheet.
C4_AsStated ==
    (/\ cronPc \notin {"off", "start"}
     /\ cronReq.userAgent # "vercel-cron"
     /\ cronReq.authorization # BearerOf(cronEnv.cronSecret)) => CronAnswered401

\* C4 (amended): when CRON_SECRET is set, an invocation without the trusted
\* user-agent whose Authorization header is not exactly 'Bearer <secret>' is
\* answered 401 and no login, roster, telemetry or write request is issued.
C4_RejectsWithoutSecret ==
    (/\ cronPc \notin {"off", "start"}
     /\ cronEnv.cronSecret # ""
     /\ cronReq.userAgent # "vercel-cron"
     /\ cronReq.authorization # BearerOf(cronEnv.cronSecret)) => CronAnswered401

C4_Witness ==
    /\ cronPc = "done"
    /\ cronEnv.cronSecret = "S"
    /\ cronEnv.set = RequiredEnv
    /\ cronReq.userAgent = "curl"
    /\ cronReq.authorization = "Bearer X"
    /\ CronAnswered401

LoginFailed ==
    /\ cronLoginRes.given
    /\ (~cronLoginRes.ok \/ ~cronLoginRes.parses \/ cronLoginRes.result_code # "1"
        \/ cronLoginRes.token = "")
RosterFailed ==
    /\ cronRosterRes.given
    /\ (~cronRosterRes.ok \/ cronRosterRes.text \notin {"json", "padded"}
        \/ cronInverters = <<>>)
CollectionFailed ==
    /\ cronI >= Len(cronInverters)
    /\ cronInverters # <<>>
    /\ cronPerformanceData = <<>>
WriteFailed ==
    /\ cronSubmitRes.given
    /\ (~cronSubmitRes.ok \/ ~cronSubmitRes.parses \/ cronSubmitRes.success # "true")

\* C5: an invocation sends at most one response and has sent exactly one when
\* it has ended, with status 401, 500 or 200;
\* 200 (success true, count = number of records posted) is sent only after a
\* 2xx write answer with success true; missing configuration and every failed
\* login, roster load, collection or write is answered 500 with an error.
C5_OneResponse ==
    cronPc # "off" =>
        /\ Len(cronResponses) <= 1
        /\ (cronPc = "done") <=> (Len(cronResponses) = 1)
        /\ cronPc \in {"start", "login", "roster", "batch", "pause", "submit", "done"}
        /\ cronPc = "done" =>
              LET r == cronResponses[1]
              IN  /\ r.status \in {401, 500, 200}
                  /\ r.status = 401 <=> CronRejects(cronReq, cronEnv)
                  /\ r.status = 200 =>
                        /\ r.success = "true"
                        /\ r.count = Len(cronPosted)
                        /\ r.count > 0
                        /\ cronSent.submit = 1
                        /\ cronSubmitRes.given
                        /\ cronSubmitRes.ok
                        /\ cronSubmitRes.success = "true"
                  /\ (/\ r.status # 401
                      /\ (ConfigMissing(cronEnv) \/ LoginFailed \/ RosterFailed
                          \/ CollectionFailed \/ WriteFailed))
                        => (r.status = 500 /\ r.error # "" /\ r.success # "true")

\* a run over two batches in which one inverter failed and the write succeeded
C5_Witness ==
    /\ cronPc = "done"
    /\ Len(cronResponses) = 1
    /\ cronResponses[1].status = 200
    /\ Len(cronInverters) > CronBatchSize
    /\ cronResponses[1].count = Len(cronInverters) - 1
    /\ cronSubmitRes.success = "true"

\* ------------------------------------------------------ claims C6 .. C8
\* C6: a login invocation started with retry count 0 sends at most 3 login
\* requests, the first attempt and the retries after busy answers and network
\* failures included, and once the third has failed the failure is surfaced:
\* loginError is set and loginSuccess is false.
C6_AtMostThreeAttempts ==
    loginPc # "unmounted" =>
        /\ loginRequests <= 3
        /\ (loginRequests = 3 /\ loginPc = "idle") =>
              (uiLoginError # "" /\ ~uiLoginSuccess /\ ~loginTimer.pending)

\* C7: a performance fetch in which a device-key or telemetry call returned
\* 401 or 403 ends with the re-authentication under way: the login request is
\* sent, or the timer that sends it is pending.
C7_AuthFailureStartsLogin ==
    (uiLastEvent = "authFailed" /\ fetchPc = "idle") =>
        (loginTimer.pending \/ loginPc = "request")

\* C8: in WeeklyPerformanceReport, after a successful login the token and its
\* issue time are both in localStorage; after a logout, a detected expiry or a
\* 401/403 from a device-key or telemetry call neither of them is.
C8_StorageFollowsSession ==
    loginSite = "wpr" =>
        /\ uiLastEvent = "loginOk" => (uiStorage.token # "" /\ uiStorage.hasStamp)
        /\ uiLastEvent \in {"logout", "expired", "authFailed"} => uiStorage = EmptyStorage

\* ----------------------------------------------------- claims C9 .. C10
\* roster positions whose tasks have returned
CronProcessed ==
    IF cronPc = "pause" THEN Min(cronI + CronBatchSize, Len(cronInverters))
    ELSE Min(cronI, Len(cronInverters))
UiProcessed ==
    IF fetchPc \in {"pause", "finish"} THEN Min(fetchI + UiBatchSize, Len(fetchInverters))
    ELSE Min(fetchI, Len(fetchInverters))

CronRecordsOf(pos) ==
    {k \in 1..Len(cronPerformanceData) :
        cronPerformanceData[k].inverterId = cronInverters[pos].inverterId}

ZeroMetrics(r) == r.totalKwh = 0 /\ r.avgDailyKwh = 0 /\ r.specYield = 0
CarriesError(r) == "error" \in DOMAIN r /\ r.error # ""
\* totalKwh of an inverter that got the normal responses
NormalTotal(range) == RoundDiv(TotalKwh(NormalSeries(range), range), 10)

\* a telemetry response that was read: 2xx with a body that parses
EnergyParsed(f) == ~f.device /\ f.res.ok /\ f.res.parses
\* a telemetry response that is accepted, result_code "1" with result_data,
\* and holds no data points: the period had no readings
EnergyAcceptedEmpty(f) == EnergyParsed(f) /\ f.res.result_code = "1" /\ f.res.shape = "nokeys"
\* a telemetry response that was read and is not accepted: a bad result code,
\* or no result_data
EnergyRejected(f) ==
    EnergyParsed(f) /\ ~(f.res.result_code = "1" /\ f.res.shape # "none")

\* the inverters that failed: non-2xx response, bad result code, missing
\* result data, thrown exception
CronFailed == {pos \in DOMAIN cronFaults : ~EnergyAcceptedEmpty(cronFaults[pos])}
UiFailed == {pos \in DOMAIN fetchFaults : ~EnergyAcceptedEmpty(fetchFaults[pos])}

NoPsKeyResponse(f) ==
    /\ f.device /\ f.res.ok /\ f.res.parses
    /\ f.res.result_code = "1" /\ f.res.hasList
    /\ FirstPsKey(f.res.keys) = ""

\* the inverters for which a telemetry request is due: all but those whose
\* device-key response failed
CronEnergyDue ==
    {pos \in 1..CronProcessed : ~(pos \in DOMAIN cronFaults /\ cronFaults[pos].device)}
UiEnergyDue ==
    {pos \in 1..UiProcessed : ~(pos \in DOMAIN fetchFaults /\ fetchFaults[pos].device)}

AllRecordsFailed == \A k \in 1..Len(uiPerformanceData) : CarriesError(uiPerformanceData[k])

\* a step in which handleSyncCSVFormat is called and runs to its first await
\* or to its return
SyncCalled == syncPc = "idle" /\ (syncPc' = "request" \/ syncResult' # syncResult)

\* C11: a sync call made while every record of performanceData carries an
\* error returns a failure, sends no POST to the write endpoint and leaves
\* syncLoading false; when there is at least one record the failure carries
\* the error 'No valid data to sync (all records have errors)'.
C11_NothingToSync ==
    [][(SyncCalled /\ AllRecordsFailed) =>
           /\ syncResult'.given /\ ~syncResult'.success
           /\ Len(uiPerformanceData) > 0 =>
                 syncResult'.error = "No valid data to sync (all records have errors)"
           /\ ~syncPosted'
           /\ syncPc' = "idle"]_vars

C11_Witness ==
    /\ Len(uiPerformanceData) > 0
    /\ AllRecordsFailed
    /\ syncResult = SyncReturn(FALSE, "No valid data to sync (all records have errors)")
    /\ ~syncPosted
    /\ syncPc = "idle"

\* positions of performanceData whose record carries an error / carries none
FailedRecords == {k \in 1..Len(uiPerformanceData) : CarriesError(uiPerformanceData[k])}
GoodRecords == (1..Len(uiPerformanceData)) \ FailedRecords

\* the inverter ids of a list of records
IdsOf(data) == {data[k].inverterId : k \in 1..Len(data)}

\* C12: a record with error set is in no sync payload (the report UI's
\* syncData, the scheduled handler's posted data) and is not counted by the
\* summary under any search term, and it stays in performanceData for as long
\* as the run's results are kept.
C12_ErrorsKeptNotSynced ==
    /\ [](/\ \A k \in 1..Len(cronPosted) : ~CarriesError(cronPosted[k])
          /\ \A term \in SearchTerms :
                LET summary == SummaryStats(FilteredData(uiPerformanceData, term))
                IN  summary.present =>
                       /\ summary.totalInverters <= Cardinality(GoodRecords)
                       /\ ~CarriesError(summary.bestPerformer)
                       /\ ~CarriesError(summary.worstPerformer))
    /\ [][SyncCalled =>
             /\ IdsOf(syncData') = {uiPerformanceData[k].inverterId : k \in GoodRecords}
             /\ Len(syncData') = Cardinality(GoodRecords)]_vars
    /\ [][\A k \in FailedRecords :
             k <= Len(uiPerformanceData') /\ uiPerformanceData'[k] = uiPerformanceData[k]]_vars

C12_Witness ==
    /\ FailedRecords # {}
    /\ GoodRecords # {}
    /\ syncPosted
    /\ syncResult = SyncReturn(TRUE, "")
    /\ Len(syncData) = Cardinality(GoodRecords)
    /\ SummaryStats(FilteredData(uiPerformanceData, "")).present

\* positions of the records without error and with totalKwh > 0, and those
\* of them the search box lets through
Qualifying == {k \in GoodRecords : uiPerformanceData[k].totalKwh > 0}
QualifyingShown ==
    {k \in Qualifying : uiSearchTerm = "" \/ SearchMatches(uiPerformanceData[k], uiSearchTerm)}

RECURSIVE TotalOver(_, _)
TotalOver(S, field) ==
    IF S = {} THEN 0
    ELSE LET k == CHOOSE x \in S : TRUE
         IN  uiPerformanceData[k][field] + TotalOver(S \ {k}, field)

\* C18 as stated: the summary is null exactly when no record without error
\* and with totalKwh > 0 exists, and otherwise counts exactly those records.
C18_AsStated ==
    /\ Qualifying = {} => ~UiSummaryStats.present
    /\ Qualifying # {} =>
          UiSummaryStats.present /\ UiSummaryStats.totalInverters = Cardinality(Qualifying)

\* C18: the summary is computed over the records without error and with
\* totalKwh > 0 that match the search term (all of them when the term is
\* empty): it is null when there is none, and otherwise non-null with
\* totalInverters their number and totalKwh and totalCapacity their sums.
C18_SummaryOverShownRecords ==
    /\ QualifyingShown = {} => UiSummaryStats = NoSummary
    /\ QualifyingShown # {} =>
          /\ UiSummaryStats.present
          /\ UiSummaryStats.totalInverters = Cardinality(QualifyingShown)
          /\ UiSummaryStats.totalKwh = TotalOver(QualifyingShown, "totalKwh")
          /\ UiSummaryStats.totalCapacity = TotalOver(QualifyingShown, "capacity")

C18_Witness ==
    /\ uiSearchTerm = "i1"
    /\ QualifyingShown # {}
    /\ QualifyingShown # Qualifying
    /\ \E k \in GoodRecords : uiPerformanceData[k].totalKwh = 0
    /\ UiSummaryStats.totalInverters = 1

\* C16: when the returned series is not empty (and every point carries a
\* value), lifetimeGeneration of the task's record is the cumulative value of
\* the last point of the sorted series, whatever the requested window; a
\* series of a single point included.
C16_LifetimeIsLastReading ==
    (taskPc = "done" /\ Len(dataArray) > 0 /\ AllCarryValue(dataArray)) =>
        taskRecord.lifetimeGeneration = CurrentKwh(sortedData[Len(sortedData)])

\* ---- C13, C14: a roster without a valid row
\* the sheet's answer holding the header row only
HeaderOnlyAnswer == RosterResponse(TRUE, "json", "table", <<HeaderRow>>)

CronHeaderOnly == cronRosterRes = HeaderOnlyAnswer
UiHeaderOnly == uiRosterRes = HeaderOnlyAnswer /\ rosterPc = "idle"

\* the handler has stopped with the roster error, having asked for no device
\* key, no telemetry and no write
CronStoppedOnRoster ==
    /\ cronInverters = <<>>
    /\ cronPc = "done"
    /\ cronResponses = <<HttpResponse(500, "false", 0, "No inverters found in the sheet.")>>
    /\ cronSent.device = 0
    /\ cronSent.energy = 0
    /\ cronSent.submit = 0
    /\ cronPosted = <<>>

LoadFailed(res) == ~res.ok \/ res.text \notin {"json", "padded"} \/ res.shape = "failure"

\* rows after the header whose inverter id and beneficiary name are both there
ValidRows(res) ==
    IF res.shape \notin {"table", "array", "values"} THEN {}
    ELSE {k \in 2..Len(res.rows) : Trim(res.rows[k].c1) # "" /\ Trim(res.rows[k].c2) # ""}

LoadCompleted == uiRosterRes.given /\ rosterPc = "idle"

\* C14: in the UI roster loader, whenever zero valid rows remain after loading,
\* the roster is the three-entry sample roster and a warning is surfaced; the
\* roster is never empty after a completed load.
C14_AsStated ==
    LoadCompleted =>
        /\ (~LoadFailed(uiRosterRes) /\ ValidRows(uiRosterRes) = {}) =>
              /\ uiInverters = SampleInverters
              /\ \E k \in 1..Len(uiRosterToasts) : uiRosterToasts[k] = "warning"
        /\ Len(uiInverters) > 0

\* C14 (amended): in the UI roster loader, when the sheet answers without
\* failure and zero valid rows remain, a warning is surfaced and the roster is
\* left empty, with no error; the roster falls back to the hard-coded
\* three-entry sample roster (all three selected) only when the load fails
\* while the roster is empty, and then an error is surfaced; a failed load
\* keeps a roster that is not empty.  After a completed load the roster is
\* empty exactly when the sheet answered without failure and without a valid
\* row.
C14_EmptyRosterStays ==
    /\ [](LoadCompleted =>
             (uiInverters = <<>>) <=> (~LoadFailed(uiRosterRes) /\ ValidRows(uiRosterRes) = {}))
    /\ [][(rosterPc = "request" /\ rosterPc' = "idle") =>
              IF LoadFailed(uiRosterRes')
              THEN /\ uiInverters' = IF uiInverters = <<>> THEN SampleInverters ELSE uiInverters
                   /\ uiError' # ""
                   /\ uiRosterToasts'[1] = "error"
              ELSE /\ Len(uiInverters') = Cardinality(ValidRows(uiRosterRes'))
                   /\ uiError' = ""
                   /\ ValidRows(uiRosterRes') = {} => uiRosterToasts'[1] = "warning"]_vars

\* the loader has completed on an answer whose rows all lack an id or a name:
\* the roster is empty and the warning was shown
C14_Witness ==
    /\ LoadCompleted
    /\ uiRosterRes.rows = <<HeaderRow, BlankIdRow, BlankNameRow>>
    /\ uiInverters = <<>>
    /\ uiRosterToasts = <<"warning", "success">>
    /\ uiError = ""

\* ---- C15: which rows of the sheet become inverters
\* the n-th valid row of the answer
NthValidRow(res, n) ==
    CHOOSE k \in ValidRows(res) : Cardinality({j \in ValidRows(res) : j <= k}) = n

\* the cell holds no number
Unparsable(cell) == Trim(cell) \notin NumericTexts

\* the inverters are the valid rows of the answer, in order, with their ids,
\* names and serial numbers, and with the capacity where the site keeps one
RosterOfValidRows(inverters, res, withCapacity) ==
    /\ Len(inverters) = Cardinality(ValidRows(res))
    /\ \A n \in 1..Len(inverters) :
          LET k == NthValidRow(res, n)
              row == res.rows[k]
          IN  /\ inverters[n].inverterId = Trim(row.c1)
              /\ inverters[n].beneficiaryName = Trim(row.c2)
              /\ inverters[n].serialNo =
                     IF Trim(row.c0) = "" THEN "S" \o ToString(k - 1) ELSE Trim(row.c0)
              /\ (withCapacity /\ Unparsable(row.c3)) => inverters[n].capacity = 1

\* C15: at every call site the roster is made of the rows after row 0 whose
\* inverterId and beneficiaryName are both non-empty after trimming, and of no
\* other row; an accepted row with a blank serialNo gets 'S' + rowIndex, and a
\* blank or unparsable capacity becomes 1.
C15_RowAcceptance ==
    /\ (cronPc \in {"batch", "pause", "submit"}) =>
          RosterOfValidRows(cronInverters, cronRosterRes, TRUE)
    /\ (uiRosterRes.given /\ rosterPc = "idle" /\ uiInvertersFetched) =>
          RosterOfValidRows(uiInverters, uiRosterRes, TRUE)
    /\ (agSheetRes.given /\ AllGraphSheetError(agSheetRes) = "") =>
          RosterOfValidRows(agInverterData, agSheetRes, FALSE)

\* ---- C17: the reading before the window
\* one reading for every day from first to last
DailyReadings(first, last) == [k \in 1..(last - first + 1) |-> Item(first + k - 1, "1234")]

\* the days of the deltas the handler and the report UI put out for a window
\* when the vendor returns one reading for every day asked for
DeltaDays(range) ==
    LET filtered == FilteredDailyData(DailyData(SortedData(DailyReadings(ApiStartDate(range),
                                                                          range.endDate))), range)
    IN  [k \in 1..Len(filtered) |-> Slice8(filtered[k].date)]

\* the readings the vendor returned for a device of the multi-year page, sorted
ReturnedYears(sn) ==
    SortByYear(WithinYears(agCloud[PsKeyFor(sn)], agYearRange.startYear, agYearRange.endYear))

\* C17: every call site asks for telemetry from one period before the window,
\* and the first returned point is the baseline only and is not in the output;
\* with one reading for every period asked for, the output has one delta for
\* every period of the window, its first period included.
C17_BaselineBeforeWindow ==
    /\ \A range \in {r \in UiRanges : r.startDate <= r.endDate} \cup {CronRange(CronRunDay)} :
          DeltaDays(range) = [k \in 1..(range.endDate - range.startDate + 1) |->
                                 range.startDate + k - 1]
    /\ \A n \in 1..Len(agSent) :
          agSent[n].kind = "history" => agSent[n].startTime = agYearRange.startYear - 1
    /\ \A sn \in DOMAIN agYearlyData :
          ReturnedYears(sn) # <<>> =>
             ~HasYear(agYearlyData[sn].formatted, ReturnedYears(sn)[1].year)

\* ---- C19: the fleet series of the multi-year page
\* the delta of a device for a year, in thousandths of a kWh: 0 without one
DeviceDelta(sn, year) ==
    LET formatted == agYearlyData[sn].formatted
        at == {k \in 1..Len(formatted) : formatted[k].year = year}
    IN  IF at = {} THEN 0
        ELSE formatted[CHOOSE k \in at : \A j \in at : k <= j].yearlyKwh

\* the sum of the devices' deltas for a year
RECURSIVE FleetDelta(_, _)
FleetDelta(serials, year) ==
    IF serials = {} THEN 0
    ELSE LET sn == CHOOSE x \in serials : TRUE
         IN  DeviceDelta(sn, year) + FleetDelta(serials \ {sn}, year)

\* the running total of the fleet's deltas over the first n years of the series
RECURSIVE FleetRunningTotal(_)
FleetRunningTotal(n) ==
    IF n = 0 THEN 0
    ELSE FleetDelta(DOMAIN agYearlyData, agAggregatedData[n].year) + FleetRunningTotal(n - 1)

\* the years some device has a delta for
FleetYears ==
    UNION {{agYearlyData[sn].formatted[k].year : k \in 1..Len(agYearlyData[sn].formatted)} :
              sn \in DOMAIN agYearlyData}

\* once a sync has stored yearly data, the fleet series has one entry for every
\* year some device has a delta for, in ascending order of the year, and its
\* yearly value is the sum of the devices' deltas for the year, to two decimals
FleetYearlyIsSum ==
    DOMAIN agYearlyData # {} =>
        /\ {agAggregatedData[n].year : n \in 1..Len(agAggregatedData)} = FleetYears
        /\ \A n \in 1..Len(agAggregatedData) :
              /\ n > 1 => agAggregatedData[n - 1].year < agAggregatedData[n].year
              /\ agAggregatedData[n].totalYearlyKwh =
                     RoundDiv(FleetDelta(DOMAIN agYearlyData, agAggregatedData[n].year), 10)

\* C19: in the multi-year view the fleet yearly value of every year is the sum
\* of the devices' deltas for that year, the series is ordered by year, and
\* the fleet cumulative value of a year is the running total of the fleet
\* yearly values up to that year.
C19_FleetSeries ==
    /\ FleetYearlyIsSum
    /\ DOMAIN agYearlyData # {} =>
          \A n \in 1..Len(agAggregatedData) :
             agAggregatedData[n].totalCumulativeKwh = RoundDiv(FleetRunningTotal(n), 10)

\* ---- C20: the batches of a run
\* the lists of the requests of one kind the page has sent, one after another
RECURSIVE SentLists(_, _)
SentLists(n, kind) ==
    IF n = 0 THEN <<>>
    ELSE SentLists(n - 1, kind) \o (IF agSent[n].kind = kind THEN agSent[n].list ELSE <<>>)

IsPrefix(s, t) == Len(s) <= Len(t) /\ s = SubSeq(t, 1, Len(s))

\* a batch of the handler, of the report UI, of the page is in flight
CronBatchStep == cronPc = "batch" /\ cronPc' = "pause"
UiBatchStep == fetchPc = "batch" /\ fetchPc' \in {"pause", "finish"}

\* C20: within a run the batches follow one another in roster order.  A batch
\* starts only when the one before it has settled and, at the handler and the
\* report UI, the pause after it is over; it holds the inverters that follow
\* those of the batches before it, at least one and at most the batch size
\* (5 at the handler, 10 at the report UI and on the multi-year page); so every
\* inverter of the roster is in exactly one batch once the loop has ended.
C20_BatchesInOrder ==
    /\ [](/\ cronSent.device = CronProcessed
          /\ cronPc \in {"submit", "done"} /\ cronSent.device > 0 =>
                cronSent.device = Len(cronInverters)
          /\ Len(fetchResults) = UiProcessed
          /\ \A pos \in 1..Len(fetchResults) :
                fetchResults[pos].inverterId = fetchInverters[pos].inverterId
          /\ fetchPc = "finish" => Len(fetchResults) = Len(fetchInverters)
          /\ \A n \in 1..Len(agSent) :
                Len(agSent[n].list) \in 1..AllGraphBatchSize
          /\ IsPrefix(SentLists(Len(agSent), "device"), SnList)
          /\ IsPrefix(SentLists(Len(agSent), "history"), PsKeyList(agFetchedDevices))
          /\ agPc = "yearly" => SentLists(Len(agSent), "device") = SnList)
    /\ [][/\ cronSent'.device # cronSent.device =>
                /\ CronBatchStep
                /\ cronSent'.device - cronSent.device \in 1..CronBatchSize
          /\ cronI' # cronI =>
                /\ cronPc = "pause"
                /\ cronI' = cronI + CronBatchSize
          /\ (fetchPc = "batch" /\ fetchResults' # fetchResults) =>
                /\ UiBatchStep
                /\ Len(fetchResults') - Len(fetchResults) \in 1..UiBatchSize
                /\ IsPrefix(fetchResults, fetchResults')
          /\ (fetchPc = "pause" /\ fetchI' # fetchI) => fetchI' = fetchI + UiBatchSize
          /\ (agPc \in {"devices", "yearly"} /\ agSent' # agSent) =>
                /\ Len(agSent') = Len(agSent) + 1
                /\ IsPrefix(agSent, agSent')]_vars

\* the handler is in the pause after its second batch, the last one of a
\* roster longer than a batch: every inverter has had its device request
C20_Witness ==
    /\ cronPc = "pause"
    /\ cronI = CronBatchSize
    /\ Len(cronInverters) > CronBatchSize
    /\ cronSent.device = Len(cronInverters)

\* ======================================================= claims C21 .. C30
\* ---- C21: failures of the whole run of the scheduled handler
\* the handler has answered once, 500 with success false and a message
CronAborted ==
    /\ cronPc = "done"
    /\ Len(cronResponses) = 1
    /\ cronResponses[1].status = 500
    /\ cronResponses[1].success = "false"
    /\ cronResponses[1].error # ""

\* C21: in the scheduled handler a failed login (rejected, or no token), a
\* failed roster load, or zero collected records after all batches aborts the
\* run: no write request is sent to the sheet and one error is returned.
C21_PipelineFailureAborts ==
    (LoginFailed \/ RosterFailed \/ CollectionFailed) =>
        /\ CronAborted
        /\ cronSent.submit = 0
        /\ cronPosted = <<>>
        /\ ~cronSubmitRes.given
        /\ LoginFailed => cronSent.roster = 0 /\ cronSent.device = 0 /\ cronSent.energy = 0
        /\ RosterFailed => cronSent.device = 0 /\ cronSent.energy = 0

\* every batch has run and no inverter gave a record: the handler has
\* answered 500 without a write
C21_Witness ==
    /\ CollectionFailed
    /\ cronSent.device = Len(cronInverters)
    /\ CronAborted
    /\ cronResponses[1].error = "No valid inverter data successfully collected to sync"
    /\ cronSent.submit = 0

\* ---- C22: the order of the requests of one run of the scheduled handler
\* C22: a run of the handler sends the write request at most once, and only
\* after the login gave a token, the roster was loaded and every batch has
\* run; it sends no device or telemetry request before it has a token.
C22_WriteOnceAfterAll ==
    /\ [](/\ cronSent.submit <= 1
          /\ cronSent.submit = 1 =>
                /\ cronSent.login = 1
                /\ cronLoginRes.given /\ cronLoginRes.ok /\ cronLoginRes.result_code = "1"
                /\ cronToken # ""
                /\ cronSent.roster = 1
                /\ cronRosterRes.given /\ cronRosterRes.ok
                /\ Len(cronInverters) > 0
                /\ cronI >= Len(cronInverters)
                /\ cronSent.device = Len(cronInverters)
                /\ cronPosted = cronPerformanceData
                /\ Len(cronPosted) > 0
          /\ (cronSent.device > 0 \/ cronSent.energy > 0) =>
                /\ cronToken # ""
                /\ cronLoginRes.given
                /\ cronRosterRes.given)
    /\ [][cronSent'.submit # cronSent.submit =>
              /\ cronPc = "pause"
              /\ cronSent'.submit = cronSent.submit + 1
              /\ cronSent'.device = cronSent.device
              /\ cronSent'.energy = cronSent.energy]_vars

\* the write request of a run over two batches has been sent
C22_Witness ==
    /\ cronPc = "submit"
    /\ cronSent.submit = 1
    /\ Len(cronInverters) > CronBatchSize
    /\ cronSent.device = Len(cronInverters)
    /\ cronSent.energy > 0
    /\ cronToken # ""


\* ---- C23
\* the inverters of the batch that is about to be requested
BatchInverterIds ==
    {fetchInverters[k].inverterId :
        k \in (fetchI + 1)..Min(fetchI + UiBatchSize, Len(fetchInverters))}

\* C23: a ps_key that a batch of a performance fetch takes from the cache
\* instead of asking the vendor for it was resolved by the vendor at most 24
\* hours earlier.
C23_CachedKeyResolvedWithinWindow ==
    fetchPc = "batch" =>
        \A id \in BatchInverterIds \cap DOMAIN fetchPsKeyCache : psResolvedAge[id] <= PsKeysTtl


\* ---- C25
\* a performance fetch of the report UI gets past its entry guards
FetchRunStarts == fetchRuns' = fetchRuns + 1 /\ fetchPc' = "batch"

\* C25: no performance fetch of the report UI, started by the auto-refresh
\* effect or by the Refresh Data button, starts while the stored session is
\* older than the TTL (or has no issue time).
C25_NoFetchOnExpiredSession ==
    [][FetchRunStarts => ~IsTokenExpired(uiStorage)]_vars

\* ---- C27
\* C27: whenever a page holds loginSuccess = true, the token it holds and the
\* token in its storage are not empty.
C27_LoginSuccessHasToken ==
    uiLoginSuccess => ActiveToken # "" /\ uiStorage.token # ""

\* ---- C29
\* C29: from a logout until the next login event the displayed performance
\* data is empty.
C29_NoDataAfterLogout ==
    (uiLastEvent = "logout" /\ ~uiLoginSuccess) => uiPerformanceData = <<>>

\* ---- C28
\* C28: a logged-in report page that holds a token and has an empty roster
\* sooner or later starts a roster fetch.
C28_EmptyRosterIsLoaded ==
    (uiLoginSuccess /\ ActiveToken # "" /\ uiInverters = <<>>) ~> (rosterPc = "request")

\* ---- C26
\* a performance fetch is in flight on a page that holds a token and may still
\* fetch
RunInFlight ==
    /\ fetchPc \in {"batch", "pause"}
    /\ ActiveToken # ""
    /\ fetchRuns < MaxFetchRuns

\* C26 as stated: while a performance fetch is in flight a refresh starts a
\* new run.
C26_AsStated == RunInFlight => ENABLED UiStartFetch

\* C26: a performance fetch starts only while none is in flight (the Refresh
\* Data button is disabled for as long as one is); a fetch in flight is never
\* aborted, a logout included: it goes on to its last batch; and what a
\* settled batch hands to the page is what its own run has collected so far.
C26_OneRunAtATime ==
    [][/\ FetchRunStarts => fetchPc = "idle"
       /\ fetchPc \in {"batch", "pause"} => fetchPc' \in {"batch", "pause", "finish"}
       /\ (fetchPc = "batch" /\ fetchPc' # "batch") =>
             /\ uiPerformanceData' = fetchResults'
             /\ Len(fetchResults') > Len(fetchResults)]_vars

\* a second fetch is in flight while the page shows the results of the first
C26_Witness ==
    /\ RunInFlight
    /\ fetchResults = <<>>
    /\ uiPerformanceData # <<>>
    /\ ~ENABLED UiStartFetch

\* ---- C24
\* no day twice in a sequence of days
NoDayTwice(days) == \A j, k \in DOMAIN days : days[j] = days[k] => j = k

\* every day of the sequence is a Monday or a Wednesday
OnAutoSyncDays(days) == \A k \in DOMAIN days : DayOfWeek(days[k]) \in {1, 3}

\* the stored last-auto-sync date is written with a day
AutoSyncDateRecorded ==
    uiLastAutoSyncDate' # uiLastAutoSyncDate /\ uiLastAutoSyncDate' # 0

\* C24 as stated: an automatic submission starts only on a Monday or a
\* Wednesday, at most once per calendar day and never on the day stored as
\* last-auto-sync date; that date is stored only after a sync that succeeded.
C24_AsStated ==
    /\ [](OnAutoSyncDays(autoStarted) /\ NoDayTwice(autoStarted))
    /\ [][autoStarted' # autoStarted => uiLastAutoSyncDate # uiToday]_vars
    /\ [][AutoSyncDateRecorded => syncResult'.given /\ syncResult'.success]_vars

\* C24: the auto-sync effect arms an automatic submission (its 3 s timer)
\* only on a Monday or a Wednesday, at most once per calendar day for as long
\* as the auto-sync history is not cleared, and never on the day stored as
\* last-auto-sync date; an automatic submission is started only by that timer;
\* and the last-auto-sync date is stored only after a sync that succeeded.
C24_ArmedByDay ==
    /\ [](OnAutoSyncDays(autoArmed) /\ NoDayTwice(autoArmed))
    /\ [][autoArmed' # autoArmed /\ autoArmed' # <<>> =>
             /\ uiLastAutoSyncDate # uiToday
             /\ autoArmed' = Append(autoArmed, uiToday)]_vars
    /\ [][autoStarted' # autoStarted => autoTimer # 0 /\ autoTimer' = 0]_vars
    /\ [][AutoSyncDateRecorded => syncResult'.given /\ syncResult'.success]_vars

\* Wednesday: the automatic submission of Monday succeeded and was recorded,
\* that of today is under way
C24_Witness ==
    /\ uiToday = 3
    /\ autoArmed = <<1, 3>>
    /\ autoStarted = <<1, 3>>
    /\ uiLastAutoSyncDate = 1
    /\ syncCaller = "auto"

\* ---- C30
\* the sync status, the stored last-sync metadata and the stored
\* last-auto-sync date
SyncBookkeeping == <<uiSyncStatus, uiSyncInfo, uiLastAutoSyncDate>>

\* a sync call returns at once, having sent nothing
SyncReturnsAtOnce ==
    syncPc = "idle" /\ syncPc' = "idle" /\ syncResult'.given /\ syncResult' # syncResult

\* the write endpoint's answer to a sync call arrives
SyncAnswered == syncPc = "request" /\ syncPc' = "idle"

\* the answer is no success: not 2xx, not JSON, or success not true
AnswerFailed(res) == ~res.ok \/ ~res.parses \/ res.success # "true"

\* C30: a sync that fails, because there is nothing to sync or because the
\* endpoint's answer is not 2xx or does not carry success true, returns
\* success = false and leaves the sync status, the stored last-sync metadata
\* and the stored last-auto-sync date as they were, whoever called it.
C30_FailedSyncChangesNothing ==
    [][/\ SyncReturnsAtOnce =>
             /\ Len(SyncDataOf(uiPerformanceData)) = 0
             /\ ~syncResult'.success
             /\ UNCHANGED SyncBookkeeping
       /\ (SyncAnswered /\ AnswerFailed(syncRes')) =>
             /\ syncResult'.given
             /\ ~syncResult'.success
             /\ UNCHANGED SyncBookkeeping]_vars

\* Wednesday: the sync of Monday was recorded, that of today was answered
\* with success false
C30_Witness ==
    /\ uiToday = 3
    /\ uiSyncStatus = SyncInfo(1)
    /\ uiSyncInfo = SyncInfo(1)
    /\ uiLastAutoSyncDate = 1
    /\ syncPc = "idle"
    /\ syncRes.given
    /\ syncRes.ok
    /\ syncRes.success = "false"
    /\ ~syncResult.success

====
